---- MODULE Spec2Model ----
(***************************************************************************)
(* Model of the beeeees game server (src/src/server/mod.rs):               *)
(*   - play_game: the game loop, sole owner of the game state, fed by the  *)
(*     bounded mpsc event queue and a tick timer, publishing snapshots on  *)
(*     a broadcast channel of capacity 1;                                  *)
(*   - handle_player / handle_observer / register / player_processing_loop *)
(*     / process_packet: one task per connection;                          *)
(*   - make_game_server's shutdown future and the listeners of main.rs.    *)
(* Every await on a channel that tasks share (the event queue, the answer  *)
(* of an AddPlayer, the snapshots, the shutdown signal) is a step boundary *)
(* of the model; a write to the client, which no other task sees, joins    *)
(* the step that leads to it.  Outcomes that the environment decides (what *)
(* the client sends, whether a write to the client succeeds, when the      *)
(* timer fires) are nondeterministic.                                      *)
(***************************************************************************)
EXTENDS Integers, Sequences, FiniteSets, TLC

(***************************************************************************)
(* Bounds of the model.                                                    *)
(***************************************************************************)
\* The event queue is mpsc::channel(16) in the code; the model runs it with a
\* smaller capacity: blocking and closing do not depend on the number.
EventsCap == 2
\* Number of snapshots the game loop publishes.
MaxTicks == 2
\* Number of Moves messages the clients send where their arrivals are
\* recorded.
MaxPackets == 3
\* Spawn points of the world the game is started with.
SpawnPoints == 1
\* Number of calls of State::tick while they are counted.
MaxAdvances == 3
\* Number of Moves messages and stray Disconnect events while the ticks are
\* observed.
LoopPackets == 3
\* How far the clock of the interval runs.
MaxTime == 9
\* Serializers made while their contents are compared.
MaxSnapshots == 2
\* Bees alive at once while bees are looked at.
MaxBees == 4

\* The period of the interval (tick_rate in main), in units of the clock.
Period == 2

\* Connection slots: a slot whose task has ended is reused by the next accept.
Sessions == {1, 2}
\* Display names clients register with ("" asks for the observer downgrade).
Names == {"alice", "bob"}
Listeners == {"tcp", "web"}
\* The call sites of Shutdown::recv.
Waiters == {"make_tcp_server", "make_web_server", "handle_player"}
\* Bee identifiers and directions that clients name in their moves.
Bees == {1, 2}
Directions == {"North", "East"}
NoDir == "None"

(***************************************************************************)
(* Wire messages.                                                          *)
(***************************************************************************)
\* protocol::Move
Move(b, d) == [bee |-> b, direction |-> d]

\* Items of the inbound stream: Some(Ok(Receive::..)), Some(Err(e)), None.
Register(n) == [t |-> "Register", name |-> n, moves |-> <<>>]
Moves(ms) == [t |-> "Moves", name |-> "", moves |-> ms]
BadPacket == [t |-> "Bad", name |-> "", moves |-> <<>>]
Eof == [t |-> "Eof", name |-> "", moves |-> <<>>]

\* The move list clients send where the moves themselves are not looked at.
MoveLists == { <<Move(1, "North")>> }

\* Move lists where the moves are looked at: every entry over the bees and
\* the directions (None included) alone, and two entries that differ for the
\* first bee in one list.
MoveEntries == { Move(b, d) : b \in Bees, d \in Directions \cup {NoDir} }

RichMoveLists ==
  { <<e>> : e \in MoveEntries }
    \cup { r \in MoveEntries \X MoveEntries : r[1].bee = 1 /\ r[2].bee = 1 /\ r[1] # r[2] }

Packets ==
  { Register(n) : n \in Names \cup {""} } \cup { Moves(ms) : ms \in MoveLists }
    \cup { BadPacket, Eof }

MovePackets ==
  { Register("alice"), Eof } \cup { Moves(ms) : ms \in RichMoveLists }

\* protocol::Send
NoMsg == [t |-> "none", msg |-> "", n |-> 0]
Registration(p) == [t |-> "Registration", msg |-> "", n |-> p]
Update(i) == [t |-> "Update", msg |-> "", n |-> i]
Warning(m, k) == [t |-> "Warning", msg |-> m, n |-> k]
Error(m) == [t |-> "Error", msg |-> m, n |-> 0]
Done == [t |-> "Done", msg |-> "", n |-> 0]

\* Another text for the notice (not the program's).
FinishedMsgRefused == "Duplicate player ID"

FinishedMsg == "Game already finished"
DuplicateMsg == "Duplicate player ID"
NoSpawnMsg == "Could not add player: no more available spawn points"

(***************************************************************************)
(* Game events.                                                            *)
(***************************************************************************)
\* GameEvent; `from` is the slot whose oneshot receiver waits for the answer
\* of an AddPlayer (0 for the other events, which carry no sender).
AddPlayerEv(p, s) == [t |-> "AddPlayer", player |-> p, from |-> s, moves |-> <<>>]
DisconnectEv(p) == [t |-> "Disconnect", player |-> p, from |-> 0, moves |-> <<>>]
MoveEv(p, ms) == [t |-> "Move", player |-> p, from |-> 0, moves |-> ms]
FinishEv == [t |-> "Finish", player |-> 0, from |-> 0, moves |-> <<>>]

\* Player::observer
Observer == 0

\* A test that takes every player for a participant (not the program's).
IsObserverNever(p) == FALSE

\* Player::is_observer
IsObserver(p) == p = Observer

(***************************************************************************)
(* The world (src/src/game/world.rs).                                      *)
(***************************************************************************)
\* Direction
AllDirections == {"North", "East", "South", "West"}

\* Position::new
Position(x, y) == [x |-> x, y |-> y]

\* Position::step
PositionStep(pos, dir) ==
  CASE dir = "North" -> Position(pos.x, pos.y + 1)
    [] dir = "East" -> Position(pos.x + 1, pos.y)
    [] dir = "South" -> Position(pos.x, pos.y - 1)
    [] dir = "West" -> Position(pos.x - 1, pos.y)

\* The map the game is started with, row-major from the bottom-left: the
\* spawn points, a grass tile and a block in the bottom row, grass above.
Width == SpawnPoints + 2
Height == 2
WorldMap ==
  [i \in 1..SpawnPoints |-> "SpawnPoint"] \o << "Grass", "Block" >>
    \o [i \in 1..(Width * (Height - 1)) |-> "Grass"]

\* World::pos_to_index and World::index_to_pos
PosToIndex(pos) == pos.x + Width * pos.y
IndexToPos(index) == Position(index % Width, index \div Width)

\* World::get: the tile at pos, "None" out of bounds.
WorldGet(pos) ==
  IF pos.x >= 0 /\ pos.x < Width /\ pos.y >= 0 /\ pos.y < Height
    THEN WorldMap[PosToIndex(pos) + 1]
    ELSE "None"

\* A world without walls (not the program's).
IsPassableAlways(tile) == TRUE

\* Tile::is_passable
IsPassable(tile) == tile # "Block"

\* Tile::is_spawn_point
IsSpawnPoint(tile) == tile = "SpawnPoint"

\* World::get_spawn_points: the positions of the spawn tiles, in map order.
RECURSIVE SpawnPointsFrom(_)
SpawnPointsFrom(index) ==
  IF index >= Len(WorldMap) THEN <<>>
  ELSE (IF IsSpawnPoint(WorldMap[index + 1]) THEN << IndexToPos(index) >> ELSE <<>>)
         \o SpawnPointsFrom(index + 1)

GetSpawnPoints == SpawnPointsFrom(0)

\* Entities::new
NoEntities == [bees |-> <<>>, hives |-> <<>>]

VARIABLES
  \* play_game
  running,          \* the loop has not broken out
  events,           \* the mpsc queue of GameEvent
  next_moves,       \* game::Moves being collected for the next tick
  active_players,   \* HashSet<Player>
  hives,            \* players that own a hive (State::players)
  spawn_points,     \* number of spawn points left
  ticks,            \* snapshots published (position of the broadcast tail)
  panicked,         \* play_game ended in a panic
  \* ClientState.players and Player::new's counter
  players,
  player_counter,
  \* the shutdown future and the listeners
  shutdown_pc,
  listeners,
  \* one task per connection slot
  pc,
  name,             \* the name read from Register ("?": none read)
  player,
  reply,            \* the oneshot answer of AddPlayer
  next,             \* position of the task's broadcast receiver
  first,            \* the first message written to the client
  last,             \* the last message written to the client
  sink_closed,      \* sink.close() was called
  pending,          \* the moves of the Move event the task is sending
  res,              \* how the task ended
  \* the environment
  packets_left,     \* Moves messages the clients may still send while the
                    \* arrivals are recorded (this bounds the record)
  \* observers of the run, read by no guard
  caught,           \* where the shutdown signal caught the task: "await_first",
                    \* "active", or "none"
  recording,        \* whether the variable below is kept
  arrived,          \* entries of the Move events consumed since the last tick
  tracing,          \* whether the three variables below are kept
  advanced,         \* calls of State::tick
  applied,          \* the moves the last call of State::tick was given
  snap,             \* the number of calls of State::tick behind the snapshot
                    \* in the broadcast channel
  \* the calls of Shutdown::recv, one caller at a time per call site
  wait,             \* where the caller is in recv()
  seen,             \* the version its watch::Receiver has marked seen
  \* the interval of play_game
  now,              \* the clock, in units finer than the period
  deadline,         \* the next expiry of the interval
  fired,            \* completions of interval.tick()
  tick_at,          \* the clock at the last completion
  lateness,         \* the most a completion was past its expiry, so far
  \* game::State, and the memory its snapshots live in
  memory,           \* blocks of Entities: memory[1] is State.entities, the
                    \* others were allocated by Arc::new
  state_spawn_points, \* State.spawn_points
  serial,           \* the Serializers handed out (the address each holds)
  made,             \* what each of them showed when it was handed out
  given,            \* the moves the last State::tick was called with
  added             \* the last call of State::add_player: whom for, and
                    \* what it returned

vars ==
  << running, events, next_moves, active_players, hives, spawn_points, ticks,
     panicked, players, player_counter, shutdown_pc, listeners, pc, name, player,
     reply, next, first, last, sink_closed, pending, res, packets_left, caught,
     recording, arrived, tracing, advanced, applied, snap, wait, seen, now,
     deadline, fired, tick_at, lateness, memory, state_spawn_points, serial, made,
     given, added >>

tickVars == << tracing, advanced, applied, snap >>

waitVars == << wait, seen >>

timerVars == << now, deadline, fired, tick_at, lateness >>

stateVars == << memory, state_spawn_points, serial, made, given, added >>

simVars == << hives, spawn_points >>

recVars == << recording, arrived >>

registryVars == << players, player_counter >>

sinkVars == << first, last, sink_closed >>

EmptyMoves == [k \in {} |-> NoDir]

NoRes == [why |-> "none", admitted |-> FALSE, disc |-> FALSE]

InitTraced(rec, trc, budget) ==
  /\ running = TRUE
  /\ events = <<>>
  /\ next_moves = EmptyMoves
  /\ active_players = {}
  /\ hives = {}
  /\ spawn_points = SpawnPoints
  /\ ticks = 0
  /\ panicked = FALSE
  /\ players = [n \in {} |-> 0]
  /\ player_counter = 1
  /\ shutdown_pc = "idle"
  /\ listeners = Listeners
  /\ pc = [s \in Sessions |-> "idle"]
  /\ name = [s \in Sessions |-> "?"]
  /\ player = [s \in Sessions |-> Observer]
  /\ reply = [s \in Sessions |-> "none"]
  /\ next = [s \in Sessions |-> 0]
  /\ first = [s \in Sessions |-> NoMsg]
  /\ last = [s \in Sessions |-> NoMsg]
  /\ sink_closed = [s \in Sessions |-> FALSE]
  /\ pending = [s \in Sessions |-> <<>>]
  /\ res = [s \in Sessions |-> NoRes]
  /\ packets_left = budget
  /\ caught = [s \in Sessions |-> "none"]
  /\ recording = rec
  /\ arrived = <<>>
  /\ tracing = trc
  /\ advanced = 0
  /\ applied = EmptyMoves
  /\ snap = 0
  /\ wait = [w \in Waiters |-> "idle"]
  /\ seen = [w \in Waiters |-> 0]
  /\ now = 0
  /\ deadline = 0
  /\ fired = 0
  /\ tick_at = 0
  /\ lateness = 0
  /\ memory = << NoEntities >>
  /\ state_spawn_points = GetSpawnPoints
  /\ serial = <<>>
  /\ made = <<>>
  /\ given = EmptyMoves
  /\ added = [player |-> Observer, result |-> "none"]

InitWith(rec, budget) == InitTraced(rec, FALSE, budget)

Init == InitWith(FALSE, MaxPackets)

(***************************************************************************)
(* Channels.                                                               *)
(***************************************************************************)
\* Shutdown::should_shutdown: the watch channel holds true once the shutdown
\* future has sent it.
ShouldShutdown == shutdown_pc # "idle"

\* The receiver of the event queue is dropped when play_game returns.
EventsClosed == ~running

\* mpsc::Sender::send completes at once when the queue has room or is closed.
EventsReady == EventsClosed \/ Len(events) < EventsCap

\* A queue that takes events after its receiver is gone (not the program's).
EnqueueAlways(ev) == Append(events, ev)

\* A queue that hands out the newest event first (not the program's).
EnqueueFirst(ev) == IF EventsClosed THEN events ELSE << ev >> \o events

\* The queue after events.send(ev): a send on a closed queue fails and leaves
\* nothing behind.
Enqueue(ev) == IF EventsClosed THEN events ELSE Append(events, ev)

\* A receiver that waits on after the sender is gone (not the program's).
UpdatesClosedNever(s) == FALSE

\* A receiver that reports Closed as soon as shutdown is signalled (not the
\* program's).
UpdatesClosedOnSignal(s) == ShouldShutdown /\ next[s] = ticks

\* broadcast::Receiver::recv on a channel of capacity 1: Closed once the
\* sender is gone and nothing is left to read.
UpdatesClosed(s) == ~running /\ next[s] = ticks

\* A receiver that never reports a lag (not the program's).
UpdatesLaggedNever(s) == FALSE

\* Lagged(n): the receiver is more than one behind the tail.
UpdatesLagged(s) == next[s] < ticks - 1

Skipped(s) == ticks - 1 - next[s]

(***************************************************************************)
(* play_game.                                                              *)
(***************************************************************************)
\* HashMap::insert and HashMap::remove on game::Moves.
MapInsert(m, k, v) == [x \in DOMAIN m \cup {k} |-> IF x = k THEN v ELSE m[x]]

MapRemove(m, k) == [x \in DOMAIN m \ {k} |-> m[x]]

\* A merge that keeps the direction a bee was given first and ignores None
\* (not the program's: the first writer wins).
MergeMoveFirstWins(m, p, mv) ==
  IF mv.direction # NoDir /\ <<p, mv.bee>> \notin DOMAIN m
    THEN MapInsert(m, <<p, mv.bee>>, mv.direction)
    ELSE m

\* The body of the loop over the moves of one Move event.
MergeMove(m, p, mv) ==
  IF mv.direction # NoDir
    THEN MapInsert(m, <<p, mv.bee>>, mv.direction)
    ELSE MapRemove(m, <<p, mv.bee>>)

RECURSIVE MergeMoves(_, _, _)
MergeMoves(m, p, ms) ==
  IF ms = <<>> THEN m ELSE MergeMoves(MergeMove(m, p, Head(ms)), p, Tail(ms))

\* The entries of a Move event, in order, tagged with the sending player.
RECURSIVE Entries(_, _)
Entries(p, ms) ==
  IF ms = <<>> THEN <<>>
  ELSE <<[player |-> p, bee |-> Head(ms).bee, direction |-> Head(ms).direction]>>
         \o Entries(p, Tail(ms))

\* An arm that hands every player to State::add_player (not the program's).
CallsAddPlayerAlways(p) == TRUE

\* The AddPlayer arm calls State::add_player for every player but the
\* observer; State::add_player asserts that it is not given the observer.
CallsAddPlayer(p) == ~IsObserver(p)

\* State::add_player succeeds when the player has a hive already or a spawn
\* point is left to pop.
AddPlayerAccepts(p) == p \in hives \/ spawn_points > 0

\* An answer that never looks at the active set (not the program's).
AdmitResultNoDup(p) ==
  IF IsObserver(p) \/ AddPlayerAccepts(p) THEN "ok" ELSE "nospawn"

\* An answer that asks State::add_player about the observer too (not the
\* program's).
AdmitResultObserverNeedsSpawn(p) ==
  IF ~AddPlayerAccepts(p) THEN "nospawn"
  ELSE IF IsObserver(p) \/ p \notin active_players THEN "ok"
  ELSE "dup"

\* The answer of the AddPlayer arm for player p.
AdmitResult(p) ==
  IF IsObserver(p) THEN "ok"
  ELSE IF ~AddPlayerAccepts(p) THEN "nospawn"
  ELSE IF p \notin active_players THEN "ok"
  ELSE "dup"

\* A queue whose leftovers vanish without a trace (not the program's: the
\* oneshot senders in it would never be dropped).
UnansweredNone(q) == {}

\* The slots whose AddPlayer is still queued: when the receiver of the queue
\* is dropped their oneshot senders are dropped unanswered.
Unanswered(q) == { q[i].from : i \in { j \in 1..Len(q) : q[j].t = "AddPlayer" } }

\* A loop that leaves the queue behind when it returns (not the program's:
\* the receiver is a local of play_game).
LoopExitKeepsQueue(q) ==
  /\ running' = FALSE
  /\ events' = q
  /\ reply' = reply

\* play_game returns (or unwinds): the queue and the broadcast sender are
\* dropped.
LoopExit(q) ==
  /\ running' = FALSE
  /\ events' = <<>>
  /\ reply' = [s \in Sessions |-> IF s \in Unanswered(q) THEN "dropped" ELSE reply[s]]

\* events.recv() yields Some(GameEvent::AddPlayer { player, response }).
GameAddPlayer ==
  /\ running
  /\ events # <<>>
  /\ Head(events).t = "AddPlayer"
  /\ LET p == Head(events).player
         s == Head(events).from
         r == AdmitResult(p)
     IN /\ hives' = IF ~IsObserver(p) /\ AddPlayerAccepts(p) THEN hives \cup {p} ELSE hives
        /\ spawn_points' =
             IF ~IsObserver(p) /\ p \notin hives /\ spawn_points > 0
               THEN spawn_points - 1 ELSE spawn_points
        /\ active_players' = IF r = "ok" /\ ~IsObserver(p)
                               THEN active_players \cup {p} ELSE active_players
        /\ IF pc[s] = "reg_wait" /\ ~(CallsAddPlayer(p) /\ IsObserver(p))
             THEN \* response.send(..) reaches the waiting register()
                  /\ reply' = [reply EXCEPT ![s] = r]
                  /\ next' = [next EXCEPT ![s] = IF r = "ok" THEN ticks ELSE @]
                  /\ events' = Tail(events)
                  /\ UNCHANGED << running, panicked >>
             ELSE \* the assert of State::add_player fails, or the receiver
                  \* is gone and unwrap() panics
                  /\ LoopExit(Tail(events))
                  /\ panicked' = TRUE
                  /\ UNCHANGED next
  /\ UNCHANGED << next_moves, ticks, registryVars, shutdown_pc, listeners, pc, name,
                  player, sinkVars, pending, res, packets_left, caught, recVars >>
  /\ UNCHANGED << tickVars, waitVars, timerVars, stateVars >>

\* A Disconnect arm that forgets to remove the player (not the program's).
GameDisconnectKeeps ==
  /\ running
  /\ events # <<>>
  /\ Head(events).t = "Disconnect"
  /\ events' = Tail(events)
  /\ UNCHANGED << running, next_moves, active_players, simVars, ticks, panicked,
                  registryVars, shutdown_pc, listeners, pc, name, player, reply, next,
                  sinkVars, pending, res, packets_left, caught, recVars >>
  /\ UNCHANGED << tickVars, waitVars, timerVars, stateVars >>

\* A Disconnect arm that fails on a player that is not active (not the
\* program's, which logs a warning).
GameDisconnectStrict ==
  /\ running
  /\ events # <<>>
  /\ Head(events).t = "Disconnect"
  /\ IF Head(events).player \in active_players
       THEN /\ active_players' = active_players \ {Head(events).player}
            /\ events' = Tail(events)
            /\ UNCHANGED << running, panicked, reply >>
       ELSE /\ LoopExit(Tail(events))
            /\ panicked' = TRUE
            /\ UNCHANGED active_players
  /\ UNCHANGED << next_moves, simVars, ticks, registryVars, shutdown_pc, listeners, pc,
                  name, player, next, sinkVars, pending, res, packets_left, caught,
                  recVars >>
  /\ UNCHANGED << tickVars, waitVars, timerVars, stateVars >>

\* A Disconnect arm that also drops what the player has asked for (not the
\* program's).
GameDisconnectForgets ==
  /\ running
  /\ events # <<>>
  /\ Head(events).t = "Disconnect"
  /\ active_players' = active_players \ {Head(events).player}
  /\ next_moves' =
       [k \in { j \in DOMAIN next_moves : j[1] # Head(events).player } |-> next_moves[k]]
  /\ events' = Tail(events)
  /\ UNCHANGED << running, simVars, ticks, panicked, registryVars,
                  shutdown_pc, listeners, pc, name, player, reply, next, sinkVars,
                  pending, res, packets_left, caught, recVars >>
  /\ UNCHANGED << tickVars, waitVars, timerVars, stateVars >>

\* events.recv() yields Some(GameEvent::Disconnect { player }).
GameDisconnect ==
  /\ running
  /\ events # <<>>
  /\ Head(events).t = "Disconnect"
  /\ active_players' = active_players \ {Head(events).player}
  /\ events' = Tail(events)
  /\ UNCHANGED << running, next_moves, simVars, ticks, panicked, registryVars,
                  shutdown_pc, listeners, pc, name, player, reply, next, sinkVars,
                  pending, res, packets_left, caught, recVars >>
  /\ UNCHANGED << tickVars, waitVars, timerVars, stateVars >>

\* events.recv() yields Some(GameEvent::Move { player, moves }).
GameMove ==
  /\ running
  /\ events # <<>>
  /\ Head(events).t = "Move"
  /\ LET p == Head(events).player
         ms == Head(events).moves
     IN IF IsObserver(p)
          THEN \* assert!(!player.is_observer()) fails
               /\ LoopExit(Tail(events))
               /\ panicked' = TRUE
               /\ UNCHANGED << next_moves, arrived >>
          ELSE /\ next_moves' = MergeMoves(next_moves, p, ms)
               /\ arrived' = IF recording THEN arrived \o Entries(p, ms) ELSE arrived
               /\ events' = Tail(events)
               /\ UNCHANGED << running, panicked, reply >>
  /\ UNCHANGED << active_players, simVars, ticks, registryVars, shutdown_pc, listeners,
                  pc, name, player, next, sinkVars, pending, res, packets_left,
                  caught, recording >>
  /\ UNCHANGED << tickVars, waitVars, timerVars, stateVars >>

\* events.recv() yields Some(GameEvent::Finish): break.  (None, the other
\* pattern of the arm, needs every sender dropped, and the shutdown future
\* keeps one until it has completed.)
GameFinish ==
  /\ running
  /\ events # <<>>
  /\ Head(events).t = "Finish"
  /\ LoopExit(Tail(events))
  /\ UNCHANGED << next_moves, active_players, simVars, ticks, panicked, registryVars,
                  shutdown_pc, listeners, pc, name, player, next, sinkVars, pending,
                  res, packets_left, caught, recVars >>
  /\ UNCHANGED << tickVars, waitVars, timerVars, stateVars >>

\* The tasks that hold a receiver of the broadcast channel: the receiver is
\* made by updates.subscribe() in the AddPlayer arm, travels in the answer,
\* and is dropped when the processing loop or handle_observer returns.
Subscribers ==
  { s \in Sessions :
      \/ pc[s] \in {"active", "move_send", "observing"}
      \/ pc[s] = "reg_wait" /\ reply[s] = "ok" }

\* A channel that stores a snapshot nobody can receive (not the program's).
PublishAlways == ticks + 1

\* The tail of the broadcast channel after updates.send(..): a send without
\* receivers fails and stores nothing.
Publish == IF Subscribers # {} THEN ticks + 1 ELSE ticks

\* A publisher that waits until every subscriber has read the last snapshot
\* (not the program's: broadcast::Sender::send never waits).
GameTickWaitsForReaders ==
  /\ running
  /\ ticks < MaxTicks
  /\ \A s \in Subscribers : next[s] = ticks
  /\ tracing => advanced < MaxAdvances
  /\ arrived' = <<>>
  /\ advanced' = IF tracing THEN advanced + 1 ELSE advanced
  /\ applied' = IF tracing THEN next_moves ELSE applied
  /\ ticks' = Publish
  /\ snap' = IF tracing /\ Publish # ticks THEN advanced' ELSE snap
  /\ next_moves' = EmptyMoves
  /\ UNCHANGED << running, events, active_players, simVars, panicked, registryVars,
                  shutdown_pc, listeners, pc, name, player, reply, next, sinkVars,
                  pending, res, packets_left, caught, recording, tracing >>
  /\ UNCHANGED << waitVars, timerVars, stateVars >>

\* A tick that leaves the collected moves in place (not the program's).
GameTickKeepsMoves ==
  /\ running
  /\ ticks < MaxTicks
  /\ tracing => advanced < MaxAdvances
  /\ arrived' = <<>>
  /\ advanced' = IF tracing THEN advanced + 1 ELSE advanced
  /\ applied' = IF tracing THEN next_moves ELSE applied
  /\ ticks' = IF Subscribers # {} THEN ticks + 1 ELSE ticks
  /\ snap' = IF tracing /\ Subscribers # {} THEN advanced' ELSE snap
  /\ UNCHANGED << running, events, next_moves, active_players, simVars, panicked,
                  registryVars, shutdown_pc, listeners, pc, name, player, reply, next,
                  sinkVars, pending, res, packets_left, caught, recording, tracing >>
  /\ UNCHANGED << waitVars, timerVars, stateVars >>

\* interval.tick() completes: state.tick(&next_moves), which applies the
\* moves collected up to here, updates.send(..), whose error is ignored,
\* next_moves.clear().
GameTick ==
  /\ running
  /\ ticks < MaxTicks
  /\ tracing => advanced < MaxAdvances
  /\ arrived' = <<>>
  /\ advanced' = IF tracing THEN advanced + 1 ELSE advanced
  /\ applied' = IF tracing THEN next_moves ELSE applied
  /\ ticks' = Publish
  /\ snap' = IF tracing /\ Publish # ticks THEN advanced' ELSE snap
  /\ next_moves' = EmptyMoves
  /\ UNCHANGED << running, events, active_players, simVars, panicked, registryVars,
                  shutdown_pc, listeners, pc, name, player, reply, next, sinkVars,
                  pending, res, packets_left, caught, recording, tracing >>
  /\ UNCHANGED << waitVars, timerVars, stateVars >>

(***************************************************************************)
(* The tasks of the connections.                                           *)
(***************************************************************************)
\* The task of slot s returns: its receivers and what it held are dropped.
Return(s, why, adm, dsc) ==
  /\ pc' = [pc EXCEPT ![s] = "closed"]
  /\ res' = [res EXCEPT ![s] = [why |-> why, admitted |-> adm, disc |-> dsc]]
  /\ name' = [name EXCEPT ![s] = "?"]
  /\ player' = [player EXCEPT ![s] = Observer]
  /\ reply' = [reply EXCEPT ![s] = "none"]
  /\ next' = [next EXCEPT ![s] = 0]
  /\ pending' = [pending EXCEPT ![s] = <<>>]

\* The task goes on: only its position changes.
Goto(s, to) ==
  /\ pc' = [pc EXCEPT ![s] = to]
  /\ UNCHANGED << res, name, player, reply, pending >>

\* A sink that swallows what it is given (not the program's).
WriteLost(s, msg) == UNCHANGED << first, last >>

\* sink.send(msg).await? succeeded.
Write(s, msg) ==
  /\ last' = [last EXCEPT ![s] = msg]
  /\ first' = [first EXCEPT ![s] = IF @ = NoMsg THEN msg ELSE @]

\* An error notice that leaves the sink open (not the program's).
ErrorNoClose(s, w, msg, why) ==
  IF w
    THEN /\ Write(s, Error(msg))
         /\ UNCHANGED sink_closed
         /\ Return(s, why, FALSE, FALSE)
    ELSE /\ UNCHANGED sinkVars
         /\ Return(s, "err_write", FALSE, FALSE)

\* An error path that also sends the disconnection notice (not the
\* program's).
ErrorThenNotice(s, w, msg, why) ==
  IF w
    THEN /\ Write(s, Error(msg))
         /\ sink_closed' = [sink_closed EXCEPT ![s] = TRUE]
         /\ pc' = [pc EXCEPT ![s] = "disconnecting"]
         /\ res' = [res EXCEPT ![s] = [why |-> why, admitted |-> FALSE, disc |-> FALSE]]
         /\ reply' = [reply EXCEPT ![s] = "none"]
         /\ UNCHANGED << name, player, next, pending >>
    ELSE /\ UNCHANGED sinkVars
         /\ Return(s, "err_write", FALSE, FALSE)

\* sink.send(Error { msg }).await?; sink.close().await?; return ..
\* (w: whether the write succeeded; a failed write returns through `?`).
ErrorAndClose(s, w, msg, why) ==
  IF w
    THEN /\ Write(s, Error(msg))
         /\ sink_closed' = [sink_closed EXCEPT ![s] = TRUE]
         /\ Return(s, why, FALSE, FALSE)
    ELSE /\ UNCHANGED sinkVars
         /\ Return(s, "err_write", FALSE, FALSE)

\* A lookup that makes a new player every time (not the program's).
ResolveFresh(n) == player_counter

\* A lookup that gives every new name the first id (not the program's).
ResolveFirst(n) == IF n \in DOMAIN players THEN players[n] ELSE 1

\* players.lock().unwrap().entry(name).or_insert_with(Player::new)
Resolve(n) == IF n \in DOMAIN players THEN players[n] ELSE player_counter

\* A listener accepts a connection and spawns its task: handle_player on the
\* TCP listener and on ws://./play, handle_observer on ws://./observe (which
\* starts in register() with Player::observer()).
Accept(l, s, r) ==
  /\ l \in listeners
  /\ l = "tcp" => r = "play"
  /\ pc[s] \in {"idle", "closed"}
  /\ pc' = [pc EXCEPT ![s] = IF r = "play" THEN "await_first" ELSE "registering"]
  /\ name' = [name EXCEPT ![s] = "?"]
  /\ player' = [player EXCEPT ![s] = Observer]
  /\ reply' = [reply EXCEPT ![s] = "none"]
  /\ next' = [next EXCEPT ![s] = 0]
  /\ first' = [first EXCEPT ![s] = NoMsg]
  /\ last' = [last EXCEPT ![s] = NoMsg]
  /\ sink_closed' = [sink_closed EXCEPT ![s] = FALSE]
  /\ pending' = [pending EXCEPT ![s] = <<>>]
  /\ res' = [res EXCEPT ![s] = NoRes]
  /\ caught' = [caught EXCEPT ![s] =
                  IF ShouldShutdown /\ r = "play" THEN "await_first" ELSE "none"]
  /\ UNCHANGED << running, events, next_moves, active_players, simVars, ticks,
                  panicked, registryVars, shutdown_pc, listeners, packets_left, recVars >>
  /\ UNCHANGED << tickVars, waitVars, timerVars, stateVars >>

\* The listener's select takes shutdown.recv() and the listener ends
\* (make_tcp_server's break, the graceful shutdown of the web server).
ListenerStop(l) ==
  /\ l \in listeners
  /\ ShouldShutdown
  /\ listeners' = listeners \ {l}
  /\ UNCHANGED << running, events, next_moves, active_players, simVars, ticks,
                  panicked, registryVars, shutdown_pc, pc, name, player, reply, next,
                  sinkVars, pending, res, packets_left, caught, recVars >>
  /\ UNCHANGED << tickVars, waitVars, timerVars, stateVars >>

\* A shutdown branch that returns without a word to the client (not the
\* program's).
FirstShutdownSilent(s, w) ==
  /\ pc[s] = "await_first"
  /\ ShouldShutdown
  /\ UNCHANGED sinkVars
  /\ Return(s, "ok_shutdown", FALSE, FALSE)
  /\ UNCHANGED << running, events, next_moves, active_players, simVars, ticks,
                  panicked, registryVars, shutdown_pc, listeners, packets_left,
                  caught, recVars >>
  /\ UNCHANGED << tickVars, waitVars, timerVars, stateVars >>

\* handle_player's first select takes shutdown.recv().
FirstShutdown(s, w) ==
  /\ pc[s] = "await_first"
  /\ ShouldShutdown
  /\ IF w
       THEN /\ Write(s, Error(FinishedMsg))
            /\ sink_closed' = [sink_closed EXCEPT ![s] = TRUE]
            /\ Return(s, "ok_shutdown", FALSE, FALSE)
       ELSE /\ UNCHANGED sinkVars
            /\ Return(s, "err_write", FALSE, FALSE)
  /\ UNCHANGED << running, events, next_moves, active_players, simVars, ticks,
                  panicked, registryVars, shutdown_pc, listeners, packets_left,
                  caught, recVars >>
  /\ UNCHANGED << tickVars, waitVars, timerVars, stateVars >>

\* A handle_player that looks every name up (not the program's).
DowngradedNever(n) == FALSE

\* name.is_empty(): the connection is downgraded to an observer.
Downgraded(n) == n = ""

\* handle_player's first select takes stream.next(), which yields pk; then
\* the match on the packet, the downgrade of an empty name and the lookup in
\* the registry.
FirstPacket(s, pk, w) ==
  /\ pc[s] = "await_first"
  /\ UNCHANGED packets_left
  /\ CASE pk.t = "Register" /\ Downgraded(pk.name) ->
            \* handle_observer(sink, addr, channels)
            /\ pc' = [pc EXCEPT ![s] = "registering"]
            /\ name' = [name EXCEPT ![s] = ""]
            /\ player' = [player EXCEPT ![s] = Observer]
            /\ UNCHANGED << registryVars, sinkVars, res, reply, next, pending >>
       [] pk.t = "Register" /\ ~Downgraded(pk.name) ->
            /\ pc' = [pc EXCEPT ![s] = "registering"]
            /\ name' = [name EXCEPT ![s] = pk.name]
            /\ player' = [player EXCEPT ![s] = Resolve(pk.name)]
            /\ players' = [n \in DOMAIN players \cup {pk.name} |->
                             IF n = pk.name THEN Resolve(n) ELSE players[n]]
            /\ player_counter' =
                 IF Resolve(pk.name) = player_counter THEN player_counter + 1
                 ELSE player_counter
            /\ UNCHANGED << sinkVars, res, reply, next, pending >>
       [] pk.t = "Moves" ->
            /\ ErrorAndClose(s, w, "Expected registration", "err_proto")
            /\ UNCHANGED registryVars
       [] pk.t = "Bad" ->
            /\ ErrorAndClose(s, w, "Transport error", "err_proto")
            /\ UNCHANGED registryVars
       [] pk.t = "Eof" ->
            \* Far side closed when collecting name: nothing is written
            /\ Return(s, "err_eof_first", FALSE, FALSE)
            /\ UNCHANGED << registryVars, sinkVars >>
  /\ UNCHANGED << running, events, next_moves, active_players, simVars, ticks,
                  panicked, shutdown_pc, listeners, caught, recVars >>
  /\ UNCHANGED << tickVars, waitVars, timerVars, stateVars >>

\* register(): events.send(GameEvent::AddPlayer { player, response }).await
RegisterSend(s, w) ==
  /\ pc[s] = "registering"
  /\ EventsReady
  /\ IF EventsClosed
       THEN /\ ErrorAndClose(s, w, FinishedMsg, "err_finished")
            /\ UNCHANGED events
       ELSE /\ events' = Append(events, AddPlayerEv(player[s], s))
            /\ Goto(s, "reg_wait")
            /\ UNCHANGED << sinkVars, next >>
  /\ UNCHANGED << running, next_moves, active_players, simVars, ticks, panicked,
                  registryVars, shutdown_pc, listeners, packets_left, caught, recVars >>
  /\ UNCHANGED << tickVars, waitVars, timerVars, stateVars >>

\* The text of the error register() relays.
ReplyMsg(r) ==
  CASE r = "dup" -> DuplicateMsg
    [] r = "nospawn" -> NoSpawnMsg
    [] OTHER -> FinishedMsg

\* A register() that returns the subscription without telling the client
\* (not the program's).
RegisterReplySilent(s, w) ==
  /\ pc[s] = "reg_wait"
  /\ reply[s] # "none"
  /\ IF reply[s] = "ok"
       THEN /\ pc' = [pc EXCEPT ![s] =
                        IF IsObserver(player[s]) THEN "observing" ELSE "active"]
            /\ reply' = [reply EXCEPT ![s] = "none"]
            /\ UNCHANGED << sinkVars, res, name, player, next, pending >>
       ELSE ErrorAndClose(s, w, ReplyMsg(reply[s]),
                          IF reply[s] = "dropped" THEN "err_finished" ELSE "err_refused")
  /\ UNCHANGED << running, events, next_moves, active_players, simVars, ticks,
                  panicked, registryVars, shutdown_pc, listeners, packets_left,
                  caught, recVars >>
  /\ UNCHANGED << tickVars, waitVars, timerVars, stateVars >>

\* A register() after which every task runs the processing loop, the
\* observers too (not the program's).
RegisterReplyAllPlay(s, w) ==
  /\ pc[s] = "reg_wait"
  /\ reply[s] # "none"
  /\ IF reply[s] = "ok"
       THEN IF w
              THEN /\ Write(s, Registration(player[s]))
                   /\ pc' = [pc EXCEPT ![s] = "active"]
                   /\ reply' = [reply EXCEPT ![s] = "none"]
                   /\ UNCHANGED << sink_closed, res, name, player, next, pending >>
              ELSE \* `?` in register(), then `?` in its caller
                   /\ Return(s, "err_write", ~IsObserver(player[s]), FALSE)
                   /\ UNCHANGED sinkVars
       ELSE ErrorAndClose(s, w, ReplyMsg(reply[s]),
                          IF reply[s] = "dropped" THEN "err_finished" ELSE "err_refused")
  /\ UNCHANGED << running, events, next_moves, active_players, simVars, ticks,
                  panicked, registryVars, shutdown_pc, listeners, packets_left,
                  caught, recVars >>
  /\ UNCHANGED << tickVars, waitVars, timerVars, stateVars >>

\* register(): register_rx.await and the match on the answer.
RegisterReply(s, w) ==
  /\ pc[s] = "reg_wait"
  /\ reply[s] # "none"
  /\ IF reply[s] = "ok"
       THEN IF w
              THEN /\ Write(s, Registration(player[s]))
                   /\ pc' = [pc EXCEPT ![s] =
                               IF IsObserver(player[s]) THEN "observing" ELSE "active"]
                   /\ reply' = [reply EXCEPT ![s] = "none"]
                   /\ UNCHANGED << sink_closed, res, name, player, next, pending >>
              ELSE \* `?` in register(), then `?` in its caller
                   /\ Return(s, "err_write", ~IsObserver(player[s]), FALSE)
                   /\ UNCHANGED sinkVars
       ELSE ErrorAndClose(s, w, ReplyMsg(reply[s]),
                          IF reply[s] = "dropped" THEN "err_finished" ELSE "err_refused")
  /\ UNCHANGED << running, events, next_moves, active_players, simVars, ticks,
                  panicked, registryVars, shutdown_pc, listeners, packets_left,
                  caught, recVars >>
  /\ UNCHANGED << tickVars, waitVars, timerVars, stateVars >>

\* An Err arm that returns the error without the disconnection notice (not
\* the program's).
LoopFailNoNotice(s, why) ==
  /\ UNCHANGED events
  /\ Return(s, why, TRUE, FALSE)

\* player_processing_loop returned Err(e): handle_player sends the
\* disconnection notice, events.send(GameEvent::Disconnect { player }).await,
\* and returns the error.
LoopFail(s, why) ==
  IF EventsReady
    THEN /\ events' = Enqueue(DisconnectEv(player[s]))
         /\ Return(s, why, TRUE, ~EventsClosed)
    ELSE /\ pc' = [pc EXCEPT ![s] = "disconnecting"]
         /\ res' = [res EXCEPT ![s] = [why |-> why, admitted |-> TRUE, disc |-> FALSE]]
         /\ UNCHANGED << events, name, player, reply, next, pending >>

\* The send of the disconnection notice completes.
DisconnectSend(s) ==
  /\ pc[s] = "disconnecting"
  /\ EventsReady
  /\ events' = Enqueue(DisconnectEv(player[s]))
  /\ Return(s, res[s].why, TRUE, ~EventsClosed)
  /\ UNCHANGED << running, next_moves, active_players, simVars, ticks, panicked,
                  registryVars, shutdown_pc, listeners, sinkVars, packets_left,
                  caught, recVars >>
  /\ UNCHANGED << tickVars, waitVars, timerVars, stateVars >>

\* player_processing_loop's select takes updates.recv().
RecvUpdate(s, w) ==
  /\ pc[s] = "active"
  /\ next[s] < ticks \/ UpdatesClosed(s)
  /\ IF UpdatesClosed(s)
       THEN \* return Ok(()), then Done and close in handle_player
            IF w
              THEN /\ Write(s, Done)
                   /\ sink_closed' = [sink_closed EXCEPT ![s] = TRUE]
                   /\ Return(s, "ok_done", TRUE, FALSE)
                   /\ UNCHANGED events
              ELSE /\ Return(s, "err_write", TRUE, FALSE)
                   /\ UNCHANGED << events, sinkVars >>
       ELSE IF w
              THEN /\ IF UpdatesLagged(s)
                        THEN /\ Write(s, Warning("Lagging behind", Skipped(s)))
                             /\ next' = [next EXCEPT ![s] = ticks - 1]
                        ELSE /\ Write(s, Update(next[s] + 1))
                             /\ next' = [next EXCEPT ![s] = ticks]
                   /\ UNCHANGED << events, pc, res, name, player, reply, pending,
                                   sink_closed >>
              ELSE /\ LoopFail(s, "err_loop_write")
                   /\ UNCHANGED sinkVars
  /\ UNCHANGED << running, next_moves, active_players, simVars, ticks, panicked,
                  registryVars, shutdown_pc, listeners, packets_left, caught, recVars >>
  /\ UNCHANGED << tickVars, waitVars, timerVars, stateVars >>

\* A send that never waits for room (not the program's).
MoveWaitsNever == FALSE

\* process_packet's Moves arm: events.send(GameEvent::Move { .. }).await waits
\* while the queue is full.
MoveWaits == ~EventsReady

\* player_processing_loop's select takes stream.next(), which yields pk.
RecvPacket(s, pk, w) ==
  /\ pc[s] = "active"
  /\ pk.t = "Moves" /\ recording => packets_left > 0
  /\ packets_left' = IF pk.t = "Moves" /\ recording THEN packets_left - 1 ELSE packets_left
  /\ CASE pk.t = "Moves" ->
            /\ IF MoveWaits
                 THEN /\ pc' = [pc EXCEPT ![s] = "move_send"]
                      /\ pending' = [pending EXCEPT ![s] = pk.moves]
                      /\ UNCHANGED events
                 ELSE /\ events' = Enqueue(MoveEv(player[s], pk.moves))
                      /\ UNCHANGED << pc, pending >>
            /\ UNCHANGED << sinkVars, res, name, player, reply, next >>
       [] pk.t \in {"Register", "Bad"} ->
            IF w
              THEN /\ Write(s, Warning("Bad input", 0))
                   /\ UNCHANGED << events, pc, res, name, player, reply, next, pending,
                                   sink_closed >>
              ELSE /\ LoopFail(s, "err_loop_write")
                   /\ UNCHANGED sinkVars
       [] pk.t = "Eof" ->
            /\ LoopFail(s, "err_loop_eof")
            /\ UNCHANGED sinkVars
  /\ UNCHANGED << running, next_moves, active_players, simVars, ticks, panicked,
                  registryVars, shutdown_pc, listeners, caught, recVars >>
  /\ UNCHANGED << tickVars, waitVars, timerVars, stateVars >>

\* The send of the Move event completes (or fails on a closed queue, which
\* process_packet only logs).
MoveSend(s) ==
  /\ pc[s] = "move_send"
  /\ EventsReady
  /\ events' = Enqueue(MoveEv(player[s], pending[s]))
  /\ pc' = [pc EXCEPT ![s] = "active"]
  /\ pending' = [pending EXCEPT ![s] = <<>>]
  /\ UNCHANGED << running, next_moves, active_players, simVars, ticks, panicked,
                  registryVars, shutdown_pc, listeners, name, player, reply, next,
                  sinkVars, res, packets_left, caught, recVars >>
  /\ UNCHANGED << tickVars, waitVars, timerVars, stateVars >>

\* An observer that sends a disconnection notice when its write fails (not
\* the program's).
ObserverRecvNotifies(s, w) ==
  /\ pc[s] = "observing"
  /\ next[s] < ticks \/ UpdatesClosed(s)
  /\ IF w
       THEN /\ Write(s, IF UpdatesClosed(s) THEN Done ELSE Update(ticks))
            /\ IF UpdatesClosed(s)
                 THEN /\ sink_closed' = [sink_closed EXCEPT ![s] = TRUE]
                      /\ Return(s, "ok_done", FALSE, FALSE)
                 ELSE /\ next' = [next EXCEPT ![s] = ticks]
                      /\ UNCHANGED << sink_closed, pc, res, name, player, reply, pending >>
            /\ UNCHANGED events
       ELSE /\ events' = Enqueue(DisconnectEv(player[s]))
            /\ Return(s, "err_write", FALSE, ~EventsClosed)
            /\ UNCHANGED sinkVars
  /\ UNCHANGED << running, next_moves, active_players, simVars, ticks, panicked,
                  registryVars, shutdown_pc, listeners, packets_left, caught, recVars >>
  /\ UNCHANGED << tickVars, waitVars, timerVars, stateVars >>

\* handle_observer's loop: updates.recv().await; the inbound stream is never
\* read, a lag is only logged, and an error returns without a notice.
ObserverRecv(s, w) ==
  /\ pc[s] = "observing"
  /\ next[s] < ticks \/ UpdatesClosed(s)
  /\ IF UpdatesClosed(s)
       THEN IF w
              THEN /\ Write(s, Done)
                   /\ sink_closed' = [sink_closed EXCEPT ![s] = TRUE]
                   /\ Return(s, "ok_done", FALSE, FALSE)
              ELSE /\ Return(s, "err_write", FALSE, FALSE)
                   /\ UNCHANGED sinkVars
       ELSE IF UpdatesLagged(s)
              THEN /\ next' = [next EXCEPT ![s] = ticks - 1]
                   /\ UNCHANGED << sinkVars, pc, res, name, player, reply, pending >>
              ELSE IF w
                     THEN /\ Write(s, Update(next[s] + 1))
                          /\ next' = [next EXCEPT ![s] = ticks]
                          /\ UNCHANGED << sink_closed, pc, res, name, player, reply,
                                          pending >>
                     ELSE /\ Return(s, "err_write", FALSE, FALSE)
                          /\ UNCHANGED sinkVars
  /\ UNCHANGED << running, events, next_moves, active_players, simVars, ticks,
                  panicked, registryVars, shutdown_pc, listeners, packets_left,
                  caught, recVars >>
  /\ UNCHANGED << tickVars, waitVars, timerVars, stateVars >>

(***************************************************************************)
(* make_game_server's shutdown future.                                     *)
(***************************************************************************)
\* shutdown_signal_tx.send(true)
ShutdownSignal ==
  /\ shutdown_pc = "idle"
  /\ shutdown_pc' = "signalled"
  /\ caught' = [s \in Sessions |->
                  CASE pc[s] = "await_first" -> "await_first"
                    [] pc[s] \in {"active", "move_send"} -> "active"
                    [] OTHER -> "none"]
  /\ UNCHANGED << running, events, next_moves, active_players, simVars, ticks,
                  panicked, registryVars, listeners, pc, name, player, reply, next,
                  sinkVars, pending, res, packets_left, recVars >>
  /\ UNCHANGED << tickVars, waitVars, timerVars, stateVars >>

\* events_tx.send(GameEvent::Finish).await
ShutdownFinish ==
  /\ shutdown_pc = "signalled"
  /\ EventsReady
  /\ events' = Enqueue(FinishEv)
  /\ shutdown_pc' = "waiting"
  /\ UNCHANGED << running, next_moves, active_players, simVars, ticks, panicked,
                  registryVars, listeners, pc, name, player, reply, next, sinkVars,
                  pending, res, packets_left, caught, recVars >>
  /\ UNCHANGED << tickVars, waitVars, timerVars, stateVars >>

\* A shutdown future that completes without waiting for the session tasks
\* (not the program's).
ShutdownCompleteEarly ==
  /\ shutdown_pc = "waiting"
  /\ listeners = {}
  /\ shutdown_pc' = "complete"
  /\ UNCHANGED << running, events, next_moves, active_players, simVars, ticks,
                  panicked, registryVars, listeners, pc, name, player, reply, next,
                  sinkVars, pending, res, packets_left, caught, recVars >>
  /\ UNCHANGED << tickVars, waitVars, timerVars, stateVars >>

\* shutdown_complete_rx.recv().await returns None: every ClientState, each
\* holding a sender of the channel, has been dropped.
ShutdownComplete ==
  /\ shutdown_pc = "waiting"
  /\ listeners = {}
  /\ \A s \in Sessions : pc[s] \in {"idle", "closed"}
  /\ shutdown_pc' = "complete"
  /\ UNCHANGED << running, events, next_moves, active_players, simVars, ticks,
                  panicked, registryVars, listeners, pc, name, player, reply, next,
                  sinkVars, pending, res, packets_left, caught, recVars >>
  /\ UNCHANGED << tickVars, waitVars, timerVars, stateVars >>

(***************************************************************************)
(* Shutdown::recv, step by step: should_shutdown() and the poll of         *)
(* signal.changed() are separate reads of the watch channel, and the send  *)
(* of the shutdown future runs on another thread.                          *)
(***************************************************************************)
\* The version of the watch channel: each send adds one, and the shutdown
\* future sends once.
Version == IF ShouldShutdown THEN 1 ELSE 0

\* The watch::Sender is dropped when the shutdown future has completed.
SenderDropped == shutdown_pc = "complete"

\* A changed() that waits for a change after the moment it is called (not
\* the program's: it compares with the version at the call).
SeenAtWaitLatest(w) == Version

\* The version changed() compares with: the one the receiver has marked seen.
\* A Shutdown is a clone of the receiver watch::channel returned, and only
\* changed() marks a version seen.
SeenAtWait(w) == seen[w]

\* recv() is called.
RecvStart(w) ==
  /\ wait[w] = "idle"
  /\ wait' = [wait EXCEPT ![w] = "check"]
  /\ UNCHANGED << running, events, next_moves, active_players, simVars, ticks,
                  panicked, registryVars, shutdown_pc, listeners, pc, name, player,
                  reply, next, sinkVars, pending, res, packets_left, caught, recVars,
                  seen >>
  /\ UNCHANGED << tickVars, timerVars, stateVars >>

\* if self.should_shutdown() { return; }
RecvCheck(w) ==
  /\ wait[w] = "check"
  /\ wait' = [wait EXCEPT ![w] = IF ShouldShutdown THEN "done" ELSE "changed"]
  /\ UNCHANGED << running, events, next_moves, active_players, simVars, ticks,
                  panicked, registryVars, shutdown_pc, listeners, pc, name, player,
                  reply, next, sinkVars, pending, res, packets_left, caught, recVars,
                  seen >>
  /\ UNCHANGED << tickVars, timerVars, stateVars >>

\* The first poll of self.signal.changed(): ready if the channel holds a
\* version the receiver has not seen, else the task is parked.
RecvChanged(w) ==
  /\ wait[w] = "changed"
  /\ IF Version # SeenAtWait(w) \/ SenderDropped
       THEN /\ wait' = [wait EXCEPT ![w] = "done"]
            /\ seen' = [seen EXCEPT ![w] = Version]
       ELSE /\ wait' = [wait EXCEPT ![w] = "parked"]
            /\ seen' = [seen EXCEPT ![w] = SeenAtWait(w)]
  /\ UNCHANGED << running, events, next_moves, active_players, simVars, ticks,
                  panicked, registryVars, shutdown_pc, listeners, pc, name, player,
                  reply, next, sinkVars, pending, res, packets_left, caught, recVars >>
  /\ UNCHANGED << tickVars, timerVars, stateVars >>

\* The send wakes the parked task and changed() returns.
RecvWake(w) ==
  /\ wait[w] = "parked"
  /\ Version # seen[w] \/ SenderDropped
  /\ wait' = [wait EXCEPT ![w] = "done"]
  /\ seen' = [seen EXCEPT ![w] = Version]
  /\ UNCHANGED << running, events, next_moves, active_players, simVars, ticks,
                  panicked, registryVars, shutdown_pc, listeners, pc, name, player,
                  reply, next, sinkVars, pending, res, packets_left, caught, recVars >>
  /\ UNCHANGED << tickVars, timerVars, stateVars >>

\* The select! that polls recv() takes another branch: the future is dropped
\* and the next iteration calls recv() again.
RecvCancel(w) ==
  /\ wait[w] = "parked"
  /\ wait' = [wait EXCEPT ![w] = "idle"]
  /\ UNCHANGED << running, events, next_moves, active_players, simVars, ticks,
                  panicked, registryVars, shutdown_pc, listeners, pc, name, player,
                  reply, next, sinkVars, pending, res, packets_left, caught, recVars,
                  seen >>
  /\ UNCHANGED << tickVars, timerVars, stateVars >>

(***************************************************************************)
(* The game loop as a component. play_game takes any receiver of           *)
(* GameEvent. The tasks of this program send Disconnect only for a player  *)
(* they were admitted as, so the branch of the Disconnect arm for a player *)
(* that is not active is reached only by a sender the program does not     *)
(* have; the step below is that sender.                                    *)
(***************************************************************************)
\* events.send(GameEvent::Disconnect { player }) by a sender other than the
\* task that was admitted as the player.
StrayDisconnect(p) ==
  /\ ~EventsClosed
  /\ Len(events) < EventsCap
  /\ packets_left > 0
  /\ packets_left' = packets_left - 1
  /\ events' = Append(events, DisconnectEv(p))
  /\ UNCHANGED << running, next_moves, active_players, simVars, ticks, panicked,
                  registryVars, shutdown_pc, listeners, pc, name, player, reply, next,
                  sinkVars, pending, res, caught, recVars, tickVars, waitVars,
                  timerVars, stateVars >>

(***************************************************************************)
(* The interval of play_game: tokio::time::interval(tick_rate) with         *)
(* MissedTickBehavior::Delay.  The first expiry is the moment the interval *)
(* is made; interval.tick() completes once the clock has reached the       *)
(* expiry, however late the loop polls it, and sets the next expiry.       *)
(***************************************************************************)
\* MissedTickBehavior::Burst (not the program's): the next expiry is one
\* period after the expiry that was missed.
NextTimeoutBurst(timeout, t) == timeout + Period

\* The next expiry after the one at timeout completed at time t: one period
\* after t if the expiry was missed (MissedTickBehavior::Delay), else one
\* period after timeout.
NextTimeout(timeout, t) == IF t > timeout THEN t + Period ELSE timeout + Period

\* Time passes: the loop is in another arm, or is not scheduled.
Elapse ==
  /\ now < MaxTime
  /\ now' = now + 1
  /\ UNCHANGED << running, events, next_moves, active_players, simVars, ticks,
                  panicked, registryVars, shutdown_pc, listeners, pc, name, player,
                  reply, next, sinkVars, pending, res, packets_left, caught, recVars,
                  tickVars, waitVars, stateVars >>
  /\ UNCHANGED << deadline, fired, tick_at, lateness >>

\* interval.tick() completes and the tick arm of the loop runs once.
IntervalTick ==
  /\ now >= deadline
  /\ fired' = fired + 1
  /\ tick_at' = now
  /\ lateness' = IF now - deadline > lateness THEN now - deadline ELSE lateness
  /\ deadline' = NextTimeout(deadline, now)
  /\ UNCHANGED << running, events, next_moves, active_players, simVars, ticks,
                  panicked, registryVars, shutdown_pc, listeners, pc, name, player,
                  reply, next, sinkVars, pending, res, packets_left, caught, recVars,
                  tickVars, waitVars, stateVars >>
  /\ UNCHANGED now

(***************************************************************************)
(* game::State on its own (src/src/game/mod.rs, src/src/game/entity.rs):   *)
(* add_player, tick and make_serializer as play_game calls them, one call  *)
(* a step.  Flowers, pollen and scores are left out: no code path leads    *)
(* from them to a position, a hive or a spawn point.  Birds and cars are   *)
(* never created.  BeeID::new reads a counter of a crate outside src/, so  *)
(* the id a new bee gets is left open.                                     *)
(***************************************************************************)
\* Bee::new
BeeNew(id, p, position) == [id |-> id, player |-> p, position |-> position, energy |-> 50]

\* A lookup by the bee's id alone (not the program's): any player's entry
\* for the id moves the bee.
MoveForAnyPlayer(bee, moves) ==
  { moves[k] : k \in { j \in DOMAIN moves : j[2] = bee.id } }

\* moves.get(&(self.player, self.id)): the direction found, if any.
MoveFor(bee, moves) ==
  { moves[k] : k \in { j \in DOMAIN moves : j = << bee.player, bee.id >> } }

\* Bee::step
BeeStep(bee, moves) ==
  LET found == MoveFor(bee, moves)
      new_pos == PositionStep(bee.position, CHOOSE d \in found : TRUE)
      tile == WorldGet(new_pos)
  IN [bee EXCEPT
        !.position = IF found # {} /\ tile # "None" /\ IsPassable(tile)
                       THEN new_pos ELSE @,
        !.energy = @ - 1]

\* Bee::rest
BeeRest(bee) == [bee EXCEPT !.energy = IF @ + 5 < 50 THEN @ + 5 ELSE 50]

\* Hive::handle_bees
HandleBees(hive, bees) ==
  [i \in DOMAIN bees |->
     IF bees[i].position = hive.position /\ bees[i].player = hive.player
       THEN BeeRest(bees[i]) ELSE bees[i]]

\* for hive in &mut self.hives { hive.handle_bees(&mut self.bees); }
RECURSIVE HandleAll(_, _)
HandleAll(hs, bees) ==
  IF hs = <<>> THEN bees ELSE HandleAll(Tail(hs), HandleBees(Head(hs), bees))

\* Bee::is_alive, with no birds and no cars
IsAlive(bee) == bee.energy > 0

\* The bees the hives spawn: spawn[i] is what the random draw of hive i
\* says, ids[i] the id BeeID::new returns.
RECURSIVE SpawnBees(_, _, _, _)
SpawnBees(hs, spawn, ids, i) ==
  IF i > Len(hs) THEN <<>>
  ELSE (IF spawn[i] THEN << BeeNew(ids[i], hs[i].player, hs[i].position) >> ELSE <<>>)
         \o SpawnBees(hs, spawn, ids, i + 1)

\* Entities::tick
EntitiesTick(e, moves, spawn, ids) ==
  LET stepped == [i \in DOMAIN e.bees |-> BeeStep(e.bees[i], moves)]
      handled == HandleAll(e.hives, stepped)
      alive == SelectSeq(handled, IsAlive)
  IN [e EXCEPT !.bees = alive \o SpawnBees(e.hives, spawn, ids, 1)]

\* State::players
StatePlayers == { memory[1].hives[i].player : i \in DOMAIN memory[1].hives }

\* An add_player that gives a hive to whoever asks (not the program's).
HasHiveNever(p) == FALSE

\* !self.players().all(|p| p != &player)
HasHive(p) == p \in StatePlayers

\* State::add_player(player); ids are the ids BeeID::new returns for the
\* three bees of Hive::new.
StateAddPlayer(p, ids) ==
  /\ ~IsObserver(p)
  /\ IF HasHive(p)
       THEN /\ added' = [player |-> p, result |-> "ok"]
            /\ UNCHANGED << memory, state_spawn_points >>
       ELSE IF state_spawn_points = <<>>
         THEN /\ added' = [player |-> p, result |-> NoSpawnMsg]
              /\ UNCHANGED << memory, state_spawn_points >>
         ELSE LET position == state_spawn_points[Len(state_spawn_points)]
                  hive == [player |-> p, position |-> position]
                  bees == [i \in 1..3 |-> BeeNew(ids[i], p, position)]
              IN /\ state_spawn_points' =
                      SubSeq(state_spawn_points, 1, Len(state_spawn_points) - 1)
                 /\ memory' = [memory EXCEPT ![1] =
                      [hives |-> Append(@.hives, hive), bees |-> @.bees \o bees]]
                 /\ added' = [player |-> p, result |-> "ok"]
  /\ UNCHANGED << running, events, next_moves, active_players, simVars, ticks,
                  panicked, registryVars, shutdown_pc, listeners, pc, name, player,
                  reply, next, sinkVars, pending, res, packets_left, caught, recVars,
                  tickVars, waitVars, timerVars >>
  /\ UNCHANGED << serial, made, given >>

\* State::tick(moves)
StateTick(moves, spawn, ids) ==
  /\ advanced < MaxAdvances
  /\ advanced' = advanced + 1
  /\ LET after == EntitiesTick(memory[1], moves, spawn, ids)
     IN /\ Len(after.bees) <= MaxBees
        /\ memory' = [memory EXCEPT ![1] = after]
  /\ given' = moves
  /\ UNCHANGED << running, events, next_moves, active_players, simVars, ticks,
                  panicked, registryVars, shutdown_pc, listeners, pc, name, player,
                  reply, next, sinkVars, pending, res, packets_left, caught, recVars,
                  waitVars, timerVars >>
  /\ UNCHANGED << tracing, applied, snap, state_spawn_points, serial, made, added >>

\* A serializer that shares the entities of the state (not the program's).
MakeSerializerShared ==
  /\ Len(serial) < MaxSnapshots
  /\ serial' = Append(serial, 1)
  /\ made' = Append(made, memory[1])
  /\ UNCHANGED << running, events, next_moves, active_players, simVars, ticks,
                  panicked, registryVars, shutdown_pc, listeners, pc, name, player,
                  reply, next, sinkVars, pending, res, packets_left, caught, recVars,
                  tickVars, waitVars, timerVars >>
  /\ UNCHANGED << memory, state_spawn_points, given, added >>

\* State::make_serializer: Arc::new(self.entities.clone()) puts a copy of
\* the entities in a block of its own.
MakeSerializer ==
  /\ Len(serial) < MaxSnapshots
  /\ memory' = Append(memory, memory[1])
  /\ serial' = Append(serial, Len(memory) + 1)
  /\ made' = Append(made, memory[1])
  /\ UNCHANGED << running, events, next_moves, active_players, simVars, ticks,
                  panicked, registryVars, shutdown_pc, listeners, pc, name, player,
                  reply, next, sinkVars, pending, res, packets_left, caught, recVars,
                  tickVars, waitVars, timerVars >>
  /\ UNCHANGED << state_spawn_points, given, added >>

\* What serialising the serializer sz shows.
Serialize(sz) == memory[sz]

(***************************************************************************)
(* Specifications.                                                         *)
(***************************************************************************)
\* The steps of the game loop and of the connections of the slots S while the
\* server runs, with clients sending packets of P and writes to the clients
\* ending as W says.
Play(S, P, W) ==
  \/ GameAddPlayer
  \/ GameDisconnect
  \/ GameMove
  \/ GameTick
  \/ \E l \in Listeners, s \in S, r \in {"play", "observe"} : Accept(l, s, r)
  \/ \E s \in S, pk \in P, w \in W : FirstPacket(s, pk, w)
  \/ \E s \in S, w \in W : RegisterSend(s, w)
  \/ \E s \in S, w \in W : RegisterReply(s, w)
  \/ \E s \in S, w \in W : RecvUpdate(s, w)
  \/ \E s \in S, pk \in P, w \in W : RecvPacket(s, pk, w)
  \/ \E s \in S : MoveSend(s)
  \/ \E s \in S : DisconnectSend(s)
  \/ \E s \in S, w \in W : ObserverRecv(s, w)

\* The steps that only a requested shutdown enables.
Stop(S, W) ==
  \/ ShutdownSignal
  \/ ShutdownFinish
  \/ ShutdownComplete
  \/ GameFinish
  \/ \E l \in Listeners : ListenerStop(l)
  \/ \E s \in S, w \in W : FirstShutdown(s, w)

\* The whole life of the server, with one connection at a time.
Next == Play({1}, Packets, BOOLEAN) \/ Stop({1}, BOOLEAN)

Spec == Init /\ [][Next]_vars

\* The running server with two connections, no shutdown being requested.
NextPlay == Play(Sessions, Packets, BOOLEAN)

SpecPlay == Init /\ [][NextPlay]_vars

\* The running server with one player, whose Move events are recorded.
InitMoves == InitWith(TRUE, MaxPackets)

NextMoves == Play({1}, MovePackets, {TRUE})

SpecMoves == InitMoves /\ [][NextMoves]_vars

\* The whole life of the server under fair scheduling: a task whose await
\* is ready is run, and a send that waits for room in the queue gets the
\* room in its turn (the queue serves its waiting senders in order).  What
\* the clients and the timer do is left to them.
Fairness ==
  /\ WF_vars(GameAddPlayer) /\ WF_vars(GameDisconnect) /\ WF_vars(GameMove)
  /\ WF_vars(GameFinish)
  /\ SF_vars(ShutdownFinish) /\ WF_vars(ShutdownComplete)
  /\ \A l \in Listeners : WF_vars(ListenerStop(l))
  /\ WF_vars(\E w \in BOOLEAN : FirstShutdown(1, w))
  /\ SF_vars(\E w \in BOOLEAN : RegisterSend(1, w))
  /\ WF_vars(\E w \in BOOLEAN : RegisterReply(1, w))
  /\ WF_vars(\E w \in BOOLEAN : RecvUpdate(1, w))
  /\ WF_vars(\E w \in BOOLEAN : ObserverRecv(1, w))
  /\ SF_vars(MoveSend(1)) /\ SF_vars(DisconnectSend(1))

SpecFair == Init /\ [][Next]_vars /\ Fairness

\* The interval of the game loop against the clock.
NextTimer == Elapse \/ IntervalTick

SpecTimer == Init /\ [][NextTimer]_vars

(***************************************************************************)
(* Properties.                                                             *)
(***************************************************************************)
\* The game loop with its ticks observed, one connection slot, and stray
\* Disconnect events.
InitLoop == InitTraced(TRUE, TRUE, LoopPackets)

NextLoop ==
  \/ Play({1}, Packets, {TRUE})
  \/ \E p \in 1..Cardinality(Names) : StrayDisconnect(p)

SpecLoop == InitLoop /\ [][NextLoop]_vars

\* The callers of Shutdown::recv and the send of the shutdown future; a task
\* that can run is run.
NextSignal ==
  \/ ShutdownSignal
  \/ \E w \in Waiters : RecvStart(w)
  \/ \E w \in Waiters : RecvCheck(w)
  \/ \E w \in Waiters : RecvChanged(w)
  \/ \E w \in Waiters : RecvWake(w)
  \/ \E w \in Waiters : RecvCancel(w)

SpecSignal ==
  /\ Init
  /\ [][NextSignal]_vars
  /\ \A w \in Waiters :
       WF_vars(RecvCheck(w)) /\ WF_vars(RecvChanged(w)) /\ WF_vars(RecvWake(w))

\* The ids Player::new can have handed out.
PlayerIds == 1..Cardinality(Names)

\* The moves State::tick is given: at most two entries, over the players,
\* the bee ids and the directions.
MoveKeys == PlayerIds \X Bees

TickMoves ==
  { [k \in ks |-> d] : ks \in { x \in SUBSET MoveKeys : Cardinality(x) <= 1 },
                       d \in Directions }
    \cup { [k \in MoveKeys |-> IF k[1] = 1 THEN "East" ELSE "North"] }

\* The ids BeeID::new gives the three bees of a hive: one id for all of
\* them, or the last one with an id of its own.
HiveBeeIds == { << 1, 1, 1 >>, << 1, 1, 2 >> }

\* The calls play_game makes on the state, in any order.
NextState ==
  \/ \E p \in PlayerIds, ids \in HiveBeeIds : StateAddPlayer(p, ids)
  \/ \E moves \in TickMoves, spawn \in [1..SpawnPoints -> BOOLEAN],
        ids \in [1..SpawnPoints -> {1}] : StateTick(moves, spawn, ids)
  \/ MakeSerializer

SpecState == Init /\ [][NextState]_vars

\* The task of slot s runs player_processing_loop.
InLoop(s) == pc[s] \in {"active", "move_send"}

\* The direction of the last entry for (p, b) in the record h; "absent" if
\* h has no entry for the pair.
RECURSIVE LastFor(_, _, _)
LastFor(h, p, b) ==
  IF h = <<>> THEN "absent"
  ELSE LET e == h[Len(h)]
       IN IF e.player = p /\ e.bee = b THEN e.direction
          ELSE LastFor(SubSeq(h, 1, Len(h) - 1), p, b)

\* The step consumes the event at the head of the queue, of type ty.
Consumed(ty) == events # <<>> /\ Head(events).t = ty /\ events' = Tail(events)

\* C1: at every moment, hence at each tick, where State::tick reads
\* next_moves, the moves collected from the Move events consumed since the
\* last tick hold for every (player, bee) the direction of the last entry
\* that arrived for the pair, and nothing for a pair whose last entry has no
\* direction or that has no entry.
C1_LastEntryWins ==
  recording =>
    \A p \in PlayerIds, b \in Bees :
      LET d == LastFor(arrived, p, b)
      IN IF d \in {"absent", NoDir}
           THEN <<p, b>> \notin DOMAIN next_moves
           ELSE <<p, b>> \in DOMAIN next_moves /\ next_moves[<<p, b>>] = d

\* Three entries for one pair were merged: a direction, then None, then
\* another direction, which is the one held.
C1_Witness ==
  /\ recording
  /\ \E i, j, k \in 1..Len(arrived) :
       /\ i < j /\ j < k
       /\ arrived[i].bee = arrived[j].bee /\ arrived[j].bee = arrived[k].bee
       /\ arrived[i].direction = "North"
       /\ arrived[j].direction = NoDir
       /\ arrived[k].direction = "East"
       /\ LastFor(arrived, arrived[k].player, arrived[k].bee) = "East"
       /\ next_moves[<<arrived[k].player, arrived[k].bee>>] = "East"

\* C2: an AddPlayer event for a player of the active set is answered with
\* the duplicate error and leaves the set as it is; consuming a Disconnect
\* event removes its player from the set, nothing but an AddPlayer event for
\* the player puts it back, and an AddPlayer event for a player outside the
\* set that the simulation accepts is answered with success.
C2_DuplicateThenReadmit ==
  [][\A p \in PlayerIds :
       /\ (Consumed("AddPlayer") /\ Head(events).player = p /\ p \in active_players)
            => /\ reply'[Head(events).from] = "dup"
               /\ active_players' = active_players
       /\ (Consumed("Disconnect") /\ Head(events).player = p)
            => p \notin active_players'
       /\ (p \notin active_players /\ p \in active_players')
            => Consumed("AddPlayer") /\ Head(events).player = p
       /\ (Consumed("AddPlayer") /\ Head(events).player = p /\ p \notin active_players
             /\ AddPlayerAccepts(p))
            => /\ reply'[Head(events).from] = "ok"
               /\ p \in active_players'
     ]_vars

\* A task that was admitted has sent its Disconnect and ended, and the task
\* of the other slot, registering the only name the registry knows, has just
\* been answered with success.
C2_Witness ==
  \E s, u \in Sessions :
    /\ s # u
    /\ Cardinality(DOMAIN players) = 1
    /\ pc[s] = "closed" /\ res[s].admitted /\ res[s].disc
    /\ pc[u] = "reg_wait" /\ reply[u] = "ok" /\ player[u] \in PlayerIds

\* C3: every task that has resolved a non-empty name holds the id the
\* registry has for the name, so two tasks with one name hold one id, and no
\* step changes or removes an entry of the registry.
C3_NameKeepsId ==
  /\ [](\A s \in Sessions :
          name[s] \in Names => name[s] \in DOMAIN players /\ player[s] = players[name[s]])
  /\ [][\A n \in DOMAIN players : n \in DOMAIN players' /\ players'[n] = players[n]]_vars

\* Two tasks hold the same name at once, while the registry knows two names.
C3_Witness ==
  /\ Cardinality(DOMAIN players) = 2
  /\ \E s, u \in Sessions :
       s # u /\ name[s] \in Names /\ name[u] = name[s] /\ player[u] = player[s]

\* C4: no two tasks run the processing loop for the same player.
C4_OneActivePerPlayer ==
  \A s, u \in Sessions :
    (s # u /\ InLoop(s) /\ InLoop(u)) => player[s] # player[u]

\* One task runs the processing loop for a player while the other, with the
\* same player, has been refused as a duplicate.
C4_Witness ==
  \E s, u \in Sessions :
    /\ s # u
    /\ InLoop(s)
    /\ player[u] = player[s]
    /\ pc[u] = "reg_wait" /\ reply[u] = "dup"

\* C5 as stated: a task that was admitted to the active set and ended on a
\* failed write or on the end of its inbound stream has sent a Disconnect
\* event for its player.
C5_DisconnectOnFailure ==
  \A s \in Sessions :
    (/\ pc[s] = "closed"
     /\ res[s].admitted
     /\ res[s].why \in {"err_write", "err_loop_write", "err_loop_eof"})
      => res[s].disc

\* C6 as stated: a task that awaits its first message while the shutdown
\* signal is set never runs the processing loop.
C6_AwaitingNeverActive ==
  \A s \in Sessions : caught[s] = "await_first" => ~InLoop(s)

\* C6, amended: while the signal is set a task leaves the wait for its first
\* message without enqueuing anything, and either through the shutdown branch
\* or a rejected first message, with an Error as its only message and the
\* sink closed; or with nothing written, on a failed write or the end of the
\* stream; or through the client's Register, going on to register.  A task
\* that ended through the shutdown branch was told "Game already finished",
\* and was never admitted.
C6_ShutdownBranch ==
  /\ [](\A s \in Sessions :
          (pc[s] = "closed" /\ res[s].why = "ok_shutdown")
            => /\ first[s] = Error(FinishedMsg)
               /\ last[s] = Error(FinishedMsg)
               /\ sink_closed[s]
               /\ ~res[s].admitted)
  /\ [][\A s \in Sessions :
          (pc[s] = "await_first" /\ ShouldShutdown /\ pc'[s] # "await_first")
            => /\ events' = events
               /\ \/ pc'[s] = "registering"
                  \/ /\ pc'[s] = "closed"
                     /\ res'[s].why \in {"ok_shutdown", "err_proto"}
                     /\ last'[s].t = "Error" /\ first'[s] = last'[s]
                     /\ sink_closed'[s]
                  \/ /\ pc'[s] = "closed"
                     /\ res'[s].why \in {"err_write", "err_eof_first"}
                     /\ last'[s] = NoMsg
     ]_vars

\* The signal caught a task awaiting its first message, and the task ended
\* through the shutdown branch.
C6_Witness ==
  \E s \in Sessions :
    caught[s] = "await_first" /\ pc[s] = "closed" /\ res[s].why = "ok_shutdown"

\* C7: a task leaves the processing loop either on a failure (a failed write,
\* the end of its inbound stream) or when the game loop has stopped and no
\* snapshot is left unread, and then Done is its last message and the sink is
\* closed; so no task ends with Done while the game loop runs, shutdown
\* signalled or not.
C7_ActiveUntilLoopStops ==
  /\ [](\A s \in Sessions : (pc[s] = "closed" /\ res[s].why = "ok_done") => ~running)
  /\ [][\A s \in Sessions :
          (InLoop(s) /\ ~InLoop(s)')
            => \/ res'[s].why \in {"err_write", "err_loop_write", "err_loop_eof"}
               \/ /\ ~running /\ next[s] = ticks
                  /\ pc'[s] = "closed"
                  /\ res'[s].why = "ok_done"
                  /\ last'[s] = Done
                  /\ sink_closed'[s]
     ]_vars

\* The signal caught a task in the processing loop, and the task has ended
\* with Done.
C7_Witness ==
  \E s \in Sessions :
    /\ caught[s] = "active"
    /\ pc[s] = "closed" /\ res[s].why = "ok_done"
    /\ last[s] = Done /\ sink_closed[s]

\* C8 as stated: a task whose client registered with an empty name can take a
\* message of the client and answer it with the Warning.
C8_ObserverMovesWarned ==
  \A s \in Sessions :
    (pc[s] = "observing" /\ name[s] = "")
      => ENABLED (NextPlay /\ pc'[s] = "observing" /\ last'[s] = Warning("Bad input", 0))

\* C8, amended: a task whose client registered with an empty name registers
\* the observer, which is never in the active set; it is sent Registration
\* first and then nothing but snapshots, so never a Warning; it never runs the
\* processing loop, and no Move event of the observer is ever in the queue.
C8_ObserverIgnoresInput ==
  /\ Observer \notin active_players
  /\ \A i \in 1..Len(events) : events[i].t = "Move" => events[i].player # Observer
  /\ \A s \in Sessions :
       name[s] = ""
         => /\ player[s] = Observer
            /\ ~InLoop(s)
            /\ pending[s] = <<>>
            /\ pc[s] = "observing"
                 => first[s] = Registration(Observer)
                      /\ last[s].t \in {"Registration", "Update"}

\* A task whose client registered with an empty name has been sent
\* Registration and a snapshot.
C8_Witness ==
  \E s \in Sessions :
    /\ pc[s] = "observing" /\ name[s] = ""
    /\ first[s] = Registration(Observer)
    /\ last[s].t = "Update"

C10_LastMessage ==
  \A s \in Sessions :
    pc[s] = "closed"
      => /\ res[s].why \in {"err_proto", "err_eof_first", "err_finished", "err_refused",
                            "err_write", "err_loop_write", "err_loop_eof"}
              => last[s].t = "Error"
         /\ res[s].why = "ok_done" => last[s] = Done

\* The task of slot s takes updates.recv() in this step and goes on.
Received(s) == pc[s] \in {"active", "observing"} /\ pc'[s] = pc[s] /\ next'[s] # next[s]

\* C11 as stated: every subscriber, player or observer, that missed snapshots
\* is sent a Warning carrying their number on its next receive.
C11_EverySubscriberWarned ==
  [][\A s \in Sessions :
       Received(s) /\ next[s] < ticks - 1
         => last'[s] = Warning("Lagging behind", ticks - 1 - next[s])]_vars

\* C11: a player that missed N snapshots is sent exactly one Warning carrying
\* N on its next receive and is moved to the newest snapshot, an observer that
\* missed snapshots is moved to the newest snapshot and sent nothing, and a
\* snapshot sent on a receive is always the most recently published one.
C11_LagReportedToPlayers ==
  [][\A s \in Sessions :
       Received(s)
         => IF next[s] < ticks - 1
              THEN /\ next'[s] = ticks - 1
                   /\ IF pc[s] = "active"
                        THEN last'[s] = Warning("Lagging behind", ticks - 1 - next[s])
                        ELSE last'[s] = last[s] /\ first'[s] = first[s]
              ELSE /\ next'[s] = ticks
                   /\ last'[s] = Update(ticks)]_vars

\* A player is told that it skipped an update.
C11_Witness ==
  \E s \in Sessions :
    /\ pc[s] = "active"
    /\ last[s] = Warning("Lagging behind", 1)
    /\ next[s] = ticks - 1

\* The positions of the queue that hold the AddPlayer of slot s.
QueuedAddPlayers(s) ==
  { i \in 1..Len(events) : events[i].t = "AddPlayer" /\ events[i].from = s }

\* The queue is first-in first-out: a step appends one event, or the loop
\* takes the event at the head.
QueueStep ==
  \/ events' = events
  \/ \E ev \in {AddPlayerEv(p, s) : p \in {Observer} \cup PlayerIds, s \in Sessions}
               \cup {DisconnectEv(p) : p \in PlayerIds}
               \cup {MoveEv(p, ms) : p \in PlayerIds, ms \in RichMoveLists}
               \cup {FinishEv} :
       events' = Append(events, ev)
  \/ events # <<>> /\ events' = Tail(events)

\* C12 as stated: every event enqueued is consumed by the loop, also when
\* Finish is enqueued while other events are queued, and every AddPlayer is
\* answered by the loop.
C12_EveryEventConsumed ==
  /\ [][QueueStep]_vars
  /\ [](\A s \in Sessions : reply[s] # "dropped")

\* C12: events are consumed one at a time in the order they were enqueued, up
\* to and including Finish; the events queued behind Finish are dropped
\* unconsumed when the loop exits. A session that waits for the answer to its
\* AddPlayer has either the one AddPlayer queued or the one answer delivered,
\* never both, and the AddPlayer dropped behind Finish is answered by the loss
\* of its answer channel.
C12_ConsumedOnceUntilFinish ==
  /\ [][\/ QueueStep
        \/ /\ events # <<>> /\ Head(events).t = "Finish"
           /\ ~running' /\ events' = <<>>
           /\ \A s \in Sessions :
                reply'[s] = IF QueuedAddPlayers(s) # {} THEN "dropped" ELSE reply[s]]_vars
  /\ [](\A s \in Sessions :
          IF pc[s] = "reg_wait"
            THEN /\ Cardinality(QueuedAddPlayers(s)) + (IF reply[s] = "none" THEN 0 ELSE 1) = 1
            ELSE /\ QueuedAddPlayers(s) = {}
                 /\ reply[s] = "none")
  /\ [][\A s \in Sessions :
          reply[s] # "none" /\ reply'[s] # reply[s] => reply'[s] = "none" /\ pc[s] = "reg_wait"]_vars

\* The loop exits on Finish with the AddPlayer of a session queued behind it.
C12_Witness ==
  \E s \in Sessions :
    /\ pc[s] = "reg_wait"
    /\ reply[s] = "dropped"
    /\ ~running
    /\ events = <<>>

\* C13: the loop never panics, and it leaves Running only by consuming
\* Finish: consuming an AddPlayer, a Disconnect or a Move that a session
\* produced, and a tick, leave it Running.
C13_OnlyFinishStopsLoop ==
  /\ [](~panicked)
  /\ [][running /\ ~running' => events # <<>> /\ Head(events).t = "Finish"]_vars
  /\ [][\A ty \in {"AddPlayer", "Disconnect", "Move"} : running /\ Consumed(ty) => running']_vars

\* The loop has consumed the AddPlayer, a Move and the Disconnect of a
\* session and is still Running.
C13_Witness ==
  \E s \in Sessions :
    /\ running
    /\ ~panicked
    /\ events = <<>>
    /\ hives # {}
    /\ next_moves # EmptyMoves
    /\ pc[s] = "closed"
    /\ res[s].disc
    /\ active_players = {}

\* C14: the shutdown future enqueues Finish only when the shutdown signal is
\* already set, and it has completed only when every listener and every
\* session task has dropped its handle, that is, has returned.
C14_SignalThenFinishThenDrain ==
  /\ [][events' = Append(events, FinishEv) => ShouldShutdown /\ shutdown_pc = "signalled"]_vars
  /\ [](\A i \in 1..Len(events) : events[i].t = "Finish" => ShouldShutdown)
  /\ [](shutdown_pc = "complete"
          => /\ listeners = {}
             /\ \A s \in Sessions : pc[s] \in {"idle", "closed"})
  /\ [][shutdown_pc # "complete" /\ shutdown_pc' = "complete"
          => /\ listeners = {}
             /\ \A s \in Sessions : pc[s] \in {"idle", "closed"}]_vars

\* The shutdown future has completed after a session that was active when
\* shutdown was requested received Done and returned.
C14_Witness ==
  /\ shutdown_pc = "complete"
  /\ ~running
  /\ \E s \in Sessions : pc[s] = "closed" /\ res[s].why = "ok_done" /\ res[s].admitted

\* The caller w is inside recv().
Waiting(w) == wait[w] \in {"check", "changed", "parked"}

\* C15: the shutdown signal is false initially and stays true once set; a
\* recv() that starts after the signal was set returns at its first check
\* without waiting; no caller is parked on a version it has already seen
\* while the signal is set; and every recv() in progress when the signal is
\* or becomes set returns.
C15_NoMissedNotification ==
  /\ ~ShouldShutdown
  /\ [][ShouldShutdown => ShouldShutdown']_vars
  /\ [][\A w \in Waiters :
          wait[w] = "check" /\ ShouldShutdown /\ wait'[w] # wait[w] => wait'[w] = "done"]_vars
  /\ [](\A w \in Waiters :
          wait[w] = "parked" /\ ShouldShutdown => Version # seen[w])
  /\ \A w \in Waiters : (Waiting(w) /\ ShouldShutdown) ~> ~Waiting(w)

\* The signal is set; one caller that was waiting for the change has
\* returned, one that started after the signal has returned from its first
\* check, and one parked before the signal is about to be woken.
C15_Witness ==
  \E w1, w2, w3 \in Waiters :
    /\ ShouldShutdown
    /\ wait[w1] = "done" /\ seen[w1] = 1
    /\ wait[w2] = "done" /\ seen[w2] = 0
    /\ wait[w3] = "parked" /\ seen[w3] = 0

\* The step is a tick of the game loop.
Ticked == advanced' # advanced

\* C16: after every tick the collected moves are empty, and the moves a tick
\* applies were all consumed since the tick before it: a move is applied at
\* the first tick after it was consumed or never.
C16_MovesClearedAtTick ==
  /\ [][Ticked => next_moves' = EmptyMoves /\ arrived' = <<>>]_vars
  /\ [][Ticked => \A k \in DOMAIN applied' : LastFor(arrived, k[1], k[2]) = applied'[k]]_vars

\* A tick has just applied a move and has left nothing collected.
C16_Witness ==
  /\ advanced >= 1
  /\ applied # EmptyMoves
  /\ next_moves = EmptyMoves
  /\ arrived = <<>>
  /\ running

\* C17: every tick calls State::tick once, with the moves collected at that
\* moment, clears them and leaves the loop Running; with a subscriber it
\* publishes one snapshot, taken after the call; without subscribers the
\* channel is left as it was.
C17_TickAdvancesAndPublishes ==
  [][Ticked
       => /\ advanced' = advanced + 1
          /\ applied' = next_moves
          /\ next_moves' = EmptyMoves
          /\ running /\ running' /\ ~panicked'
          /\ IF Subscribers # {}
               THEN ticks' = ticks + 1 /\ snap' = advanced + 1
               ELSE ticks' = ticks /\ snap' = snap]_vars

\* A tick without subscribers was followed by a tick that applied a move and
\* published the snapshot taken after it.
C17_Witness ==
  /\ running
  /\ ticks >= 1
  /\ advanced > ticks
  /\ snap = advanced
  /\ applied # EmptyMoves
  /\ next_moves = EmptyMoves

\* The state play_game owns.
gameVars == << next_moves, active_players, hives, spawn_points, ticks, advanced, snap >>

\* C18: when the loop consumes Finish it drops the events queued behind it
\* without processing them; from then on the queue stays empty and there is
\* no tick, no snapshot and no change of the game state. A session whose
\* AddPlayer was dropped is never admitted: its task ends with Error "Game
\* already finished" and a closed sink, or with nothing sent when the write
\* to the client fails.
C18_NothingAfterFinish ==
  /\ [](~running => events = <<>>)
  /\ [][~running => ~running' /\ UNCHANGED gameVars]_vars
  /\ [][running /\ ~running'
          => /\ UNCHANGED gameVars
             /\ events' = <<>>
             /\ \A s \in Sessions :
                  QueuedAddPlayers(s) # {} => reply'[s] = "dropped" /\ pc'[s] = "reg_wait"]_vars
  /\ [](\A s \in Sessions : reply[s] = "dropped" => pc[s] = "reg_wait" /\ ~running)
  /\ [][\A s \in Sessions :
          reply[s] = "dropped" /\ pc'[s] # pc[s]
            => /\ pc'[s] = "closed"
               /\ ~res'[s].admitted
               /\ \/ /\ res'[s].why = "err_finished"
                     /\ last'[s] = Error(FinishedMsg)
                     /\ sink_closed'[s]
                  \/ /\ res'[s].why = "err_write"
                     /\ last'[s] = last[s]]_vars

\* The loop has published a snapshot and then consumed Finish with the
\* AddPlayer of a session queued behind it.
C18_Witness ==
  \E s \in Sessions :
    /\ ~running
    /\ ticks >= 1
    /\ shutdown_pc = "waiting"
    /\ reply[s] = "dropped"
    /\ last[s] = NoMsg

\* C19: the loop answers an AddPlayer of the observer with success and a
\* receiver subscribed at the tail of the broadcast channel, and leaves the
\* hives, the spawn points, the active players and the collected moves as
\* they were; the observer is never an active player and never owns a hive.
C19_ObserverAdmittedOutsideGame ==
  /\ [][Consumed("AddPlayer") /\ IsObserver(Head(events).player)
          => LET s == Head(events).from
             IN /\ reply'[s] = "ok"
                /\ next'[s] = ticks
                /\ s \in Subscribers'
                /\ running'
                /\ UNCHANGED << hives, spawn_points, active_players, next_moves >>]_vars
  /\ [](Observer \notin active_players /\ Observer \notin hives)

\* An observer has been answered with success while a player is active and
\* no spawn point is left.
C19_Witness ==
  \E s \in Sessions :
    /\ pc[s] = "reg_wait"
    /\ reply[s] = "ok"
    /\ IsObserver(player[s])
    /\ active_players # {}
    /\ spawn_points = 0

\* C20: consuming a Disconnect of a player that is not active changes
\* neither the active players, nor the collected moves, nor the simulation,
\* nor the broadcast channel, and leaves the loop Running.
C20_StrayDisconnectIgnored ==
  [][Consumed("Disconnect") /\ Head(events).player \notin active_players
       => /\ running' /\ ~panicked'
          /\ UNCHANGED << active_players, next_moves, hives, spawn_points, ticks,
                          advanced, applied, snap, reply, next >>]_vars

\* A Disconnect was consumed while no player had ever been admitted, and the
\* loop runs on.
C20_Witness ==
  /\ running
  /\ ~panicked
  /\ events = <<>>
  /\ packets_left < LoopPackets
  /\ hives = {}
  /\ active_players = {}
  /\ next_moves = EmptyMoves

\* C21: a task whose first packet is not a Register, or is a transport error,
\* sends Error as its only message, closes the sink and returns the failure;
\* the step enqueues no event and leaves the registry and the counter of
\* Player::new as they were. (A task whose write to the client fails returns
\* that failure with nothing sent, and changes neither the queue nor the
\* registry either.)
C21_BadFirstPacketRejected ==
  /\ [][\A s \in Sessions :
          pc[s] = "await_first" /\ pc'[s] = "closed"
            => /\ events' = events
               /\ UNCHANGED registryVars
               /\ ~res'[s].admitted /\ ~res'[s].disc
               /\ res'[s].why = "err_proto"
                    => /\ last'[s] \in {Error("Expected registration"), Error("Transport error")}
                       /\ first'[s] = last'[s]
                       /\ sink_closed'[s]]_vars
  /\ [](\A s \in Sessions :
          pc[s] = "closed" /\ res[s].why = "err_proto"
            => last[s].t = "Error" /\ first[s] = last[s] /\ sink_closed[s])

\* A task was sent Moves first and has ended, with nothing queued and an
\* empty registry.
C21_Witness ==
  \E s \in Sessions :
    /\ pc[s] = "closed"
    /\ res[s].why = "err_proto"
    /\ last[s] = Error("Expected registration")
    /\ sink_closed[s]
    /\ events = <<>>
    /\ DOMAIN players = {}
    /\ player_counter = 1

\* The task of slot s leaves player_processing_loop in this step.
LeavesLoop(s) == InLoop(s) /\ ~InLoop(s)'

\* The Disconnect events of player p in the queue.
QueuedDisconnects(p) ==
  { i \in 1..Len(events) : events[i].t = "Disconnect" /\ events[i].player = p }

BadInput == Warning("Bad input", 0)

\* C23: in the processing loop a Register, and a packet that failed to
\* decode or to arrive, are answered with the Warning "Bad input": the task
\* stays in the loop, nothing is enqueued and the game is left as it was.
\* The answer is what the task does with such a packet whenever it is in its
\* select and the write succeeds.
C23_BadInputWarned ==
  /\ [](\A s \in Sessions :
          pc[s] = "active"
            => \A pk \in {Register("alice"), BadPacket} :
                 ENABLED (/\ RecvPacket(s, pk, TRUE)
                          /\ last'[s] = BadInput
                          /\ pc'[s] = "active"
                          /\ events' = events))
  /\ [][\A s \in Sessions :
          pc[s] = "active" /\ last'[s] = BadInput /\ last[s] # BadInput
            => /\ pc'[s] = "active"
               /\ events' = events
               /\ player'[s] = player[s] /\ next'[s] = next[s]
               /\ UNCHANGED << active_players, next_moves, registryVars, running >>]_vars

\* An active player was warned about bad input and is still active, with
\* nothing queued.
C23_Witness ==
  \E s \in Sessions :
    /\ pc[s] = "active"
    /\ last[s] = BadInput
    /\ player[s] \in active_players
    /\ events = <<>>

\* C24: once the queue is closed, a Moves message, and a Move event that was
\* waiting for room, leave the task in the processing loop with nothing
\* enqueued and nothing written. From then on the task stays in the loop
\* until its subscription reports closed, when it sends Done, closes the sink
\* and returns success without a Disconnect; or until the client fails it (a
\* failed write, the end of the inbound stream), and then too nothing is
\* enqueued.
C24_ClosedQueueNotFatal ==
  /\ [](\A s \in Sessions :
          pc[s] = "active" /\ EventsClosed
            => \A ms \in MoveLists :
                 ENABLED (/\ RecvPacket(s, Moves(ms), TRUE)
                          /\ pc'[s] = "active"
                          /\ UNCHANGED << events, res, last, sink_closed >>))
  /\ [](\A s \in Sessions :
          pc[s] = "move_send" /\ EventsClosed
            => ENABLED (/\ MoveSend(s)
                        /\ pc'[s] = "active"
                        /\ UNCHANGED << events, res, last, sink_closed >>))
  /\ [](\A s \in Sessions :
          pc[s] = "active" /\ EventsClosed /\ next[s] = ticks
            => ENABLED (/\ RecvUpdate(s, TRUE)
                        /\ pc'[s] = "closed"
                        /\ res'[s] = [why |-> "ok_done", admitted |-> TRUE, disc |-> FALSE]
                        /\ last'[s] = Done /\ sink_closed'[s]
                        /\ events' = events))
  /\ [][\A s \in Sessions :
          InLoop(s) /\ EventsClosed
            => /\ events' = events
               /\ pc'[s] \in {pc[s], "active", "closed"}
               /\ pc'[s] = "closed"
                    => /\ ~res'[s].disc
                       /\ res'[s].why = "ok_done" <=> last'[s] = Done
                       /\ res'[s].why = "ok_done" => sink_closed'[s] /\ next[s] = ticks]_vars

\* The game loop has stopped while the Move event of an active player was
\* waiting for room in the queue.
C24_Witness ==
  \E s \in Sessions :
    /\ pc[s] = "move_send"
    /\ pending[s] # <<>>
    /\ EventsClosed
    /\ events = <<>>
    /\ last[s].t # "Error"

\* C25: a task whose AddPlayer finds the queue closed sends Error with the
\* text "Game already finished" as its only message, closes the sink and
\* returns the failure; it was never admitted, and neither this step nor a
\* later one of the task enqueues anything. (If the write to the client
\* fails the task returns that failure with nothing sent.)
C25_ClosedQueueAtRegister ==
  /\ [](\A s \in Sessions :
          pc[s] = "registering" /\ EventsClosed
            => ENABLED (/\ RegisterSend(s, TRUE)
                        /\ pc'[s] = "closed"
                        /\ last'[s] = Error("Game already finished")
                        /\ sink_closed'[s]))
  /\ [][\A s \in Sessions :
          pc[s] = "registering" /\ EventsClosed /\ pc'[s] # pc[s]
            => /\ pc'[s] = "closed"
               /\ events' = events
               /\ ~res'[s].admitted /\ ~res'[s].disc
               /\ \/ /\ res'[s].why = "err_finished"
                     /\ last'[s] = Error("Game already finished")
                     /\ first'[s] \in {last'[s], first[s]}
                     /\ sink_closed'[s]
                  \/ /\ res'[s].why = "err_write"
                     /\ last'[s] = last[s] /\ ~sink_closed'[s]]_vars
  /\ [](\A s \in Sessions :
          pc[s] = "closed" /\ res[s].why = "err_finished"
            => ~res[s].disc /\ last[s] = Error("Game already finished") /\ sink_closed[s])

\* A task is about to send its AddPlayer after the game loop has stopped, and
\* the send ends it with the notice.
C25_Witness ==
  \E s \in Sessions :
    /\ pc[s] = "registering"
    /\ EventsClosed
    /\ shutdown_pc = "waiting"
    /\ ENABLED (/\ RegisterSend(s, TRUE)
                /\ res'[s].why = "err_finished"
                /\ last'[s] = Error("Game already finished"))

\* The task of slot s acts for the observer: it came through ws://./observe
\* or registered with an empty name.
ObserverTask(s) ==
  \/ pc[s] = "observing"
  \/ pc[s] \in {"registering", "reg_wait"} /\ IsObserver(player[s])

\* C26: no Disconnect of the observer is ever queued; a step that enqueues a
\* Disconnect is a step of a task that left the processing loop of that
\* player; and the task of an observer ends, with success or with failure,
\* without enqueuing anything.
C26_ObserverNeverDisconnects ==
  /\ [](\A i \in 1..Len(events) : events[i].t = "Disconnect" => ~IsObserver(events[i].player))
  /\ [][\A p \in {Observer} \cup PlayerIds :
          Cardinality(QueuedDisconnects(p)') > Cardinality(QueuedDisconnects(p))
            => /\ ~IsObserver(p)
               /\ \E s \in Sessions :
                    /\ InLoop(s) \/ pc[s] = "disconnecting"
                    /\ player[s] = p
                    /\ pc'[s] = "closed"]_vars
  /\ [][\A s \in Sessions :
          ObserverTask(s) /\ pc'[s] = "closed"
            => events' = events /\ ~res'[s].disc /\ ~res'[s].admitted]_vars

\* The task of an observer has ended on a failed write after its
\* Registration, with nothing queued and the loop running.
C26_Witness ==
  \E s \in Sessions :
    /\ pc[s] = "closed"
    /\ first[s] = Registration(Observer)
    /\ res[s].why = "err_write"
    /\ events = <<>>
    /\ running

\* C27: the registry never has an entry for the empty name, never maps a name
\* to the observer, and a task that registers with the empty name becomes an
\* observer task with the registry and the counter of Player::new left as
\* they were; no step of an observer task changes them.
C27_EmptyNameBypassesRegistry ==
  /\ []("" \notin DOMAIN players)
  /\ [](\A n \in DOMAIN players : ~IsObserver(players[n]) /\ players[n] < player_counter)
  /\ [][\A s \in Sessions :
          pc[s] = "await_first" /\ pc'[s] = "registering" /\ name'[s] = ""
            => /\ UNCHANGED registryVars
               /\ IsObserver(player'[s])]_vars
  /\ [][\A s \in Sessions :
          (ObserverTask(s) /\ pc'[s] # pc[s]) => UNCHANGED registryVars]_vars

\* A task has registered with the empty name, after a named player was given
\* an id, and is being admitted as an observer.
C27_Witness ==
  \E s \in Sessions :
    /\ name[s] = ""
    /\ pc[s] = "reg_wait"
    /\ IsObserver(player[s])
    /\ DOMAIN players = {"alice"}
    /\ player_counter = 2

\* The snapshots the receiver of slot s can still be given: the channel keeps
\* the newest one only.
Unread(s) == IF next[s] < ticks THEN {ticks} ELSE {}

\* C28: while the loop runs a tick is possible whatever the subscribers have
\* read; a receive moves the receiver to the newest snapshot or, after a lag,
\* just before it, so that a subscriber is never given more than the one
\* newest snapshot and the older ones are counted as skipped; a subscriber
\* that has read the newest snapshot has nothing to receive while the loop
\* runs.
C28_PublisherNeverBlocked ==
  /\ [](running /\ ticks < MaxTicks => ENABLED GameTick)
  /\ [](\A s \in Subscribers : Cardinality(Unread(s)) <= 1 /\ next[s] <= ticks)
  /\ [][\A s \in Sessions :
          Received(s)
            => /\ next'[s] = IF next[s] < ticks - 1 THEN ticks - 1 ELSE ticks
               /\ last'[s].t = "Update" /\ last'[s] # last[s] => last'[s] = Update(ticks)
               /\ last'[s].t = "Warning" /\ last'[s] # last[s]
                    => last'[s].n = ticks - 1 - next[s]]_vars
  /\ [](\A s \in Sessions :
          pc[s] \in {"active", "observing"} /\ running /\ next[s] = ticks
            => \A w \in BOOLEAN : ~ENABLED RecvUpdate(s, w) /\ ~ENABLED ObserverRecv(s, w))

\* The loop has published every snapshot of the run while a subscriber has
\* received none of them.
C28_Witness ==
  \E s \in Subscribers :
    /\ pc[s] \in {"active", "observing"}
    /\ next[s] = 0
    /\ ticks = MaxTicks
    /\ last[s].t = "Registration"

\* The task of slot s ends with a failure in this step, or goes on to send
\* its disconnection notice.
Fails(s) ==
  /\ pc[s] \notin {"closed", "disconnecting"}
  /\ \/ pc'[s] = "disconnecting"
     \/ pc'[s] = "closed" /\ res'[s].why \notin {"ok_done", "ok_shutdown"}

\* Some task acts for player p, or the Disconnect of p is under way.
Held(p, but) ==
  \/ \E u \in Sessions \ {but} :
       /\ player[u] = p
       /\ \/ InLoop(u)
          \/ pc[u] = "disconnecting"
          \/ pc[u] = "reg_wait" /\ reply[u] = "ok"
  \/ QueuedDisconnects(p) # {}

\* The step in which a task fails changes nothing of another task, leaves
\* the loop Running and the broadcast channel as it was.
C29_FailureFrame ==
  [][\A s \in Sessions :
       Fails(s)
         => /\ running' = running /\ ~panicked'
            /\ ticks' = ticks
            /\ \A u \in Sessions \ {s} :
                 /\ pc'[u] = pc[u] /\ name'[u] = name[u] /\ player'[u] = player[u]
                 /\ reply'[u] = reply[u] /\ next'[u] = next[u]
                 /\ first'[u] = first[u] /\ last'[u] = last[u]
                 /\ sink_closed'[u] = sink_closed[u]
                 /\ pending'[u] = pending[u] /\ res'[u] = res[u]]_vars

\* C29 as stated: the failure of a task changes nothing of another task and
\* leaves the loop Running, and it does not keep another task from being
\* admitted: a task is refused as a duplicate only while some task acts for
\* its player or the Disconnect of the player is under way.
C29_FailureStaysLocal ==
  /\ C29_FailureFrame
  /\ [][Consumed("AddPlayer") /\ reply'[Head(events).from] = "dup"
          => Held(Head(events).player, Head(events).from)]_vars

\* C30: a task that runs the processing loop or the loop of an observer was
\* sent Registration, with its player, first; a client that was sent an
\* Update, a Warning or Done was sent Registration first; the first message
\* of a connection stays its first message; and a task that was not admitted
\* is sent neither Registration nor Update: nothing, or a single Error.
C30_RegistrationFirst ==
  /\ [](\A s \in Sessions :
          InLoop(s) \/ pc[s] \in {"observing", "disconnecting"}
            => first[s] = Registration(player[s]))
  /\ [](\A s \in Sessions :
          last[s].t \in {"Update", "Warning", "Done"} => first[s].t = "Registration")
  /\ [](\A s \in Sessions :
          first[s].t = "Registration"
            => \/ InLoop(s) \/ pc[s] \in {"observing", "disconnecting"}
               \/ pc[s] = "closed"
                    /\ res[s].why \in {"ok_done", "err_write", "err_loop_write", "err_loop_eof"})
  /\ [](\A s \in Sessions :
          (\/ pc[s] \in {"await_first", "registering", "reg_wait"}
           \/ pc[s] = "closed"
                /\ res[s].why \in {"err_refused", "err_finished", "err_proto",
                                   "err_eof_first", "ok_shutdown"})
            => /\ first[s].t \in {"none", "Error"}
               /\ last[s] = first[s])
  /\ [][\A s \in Sessions :
          first[s] # NoMsg => first'[s] = first[s] \/ (pc[s] = "closed" /\ first'[s] = NoMsg)]_vars

\* A player was sent Registration first and Done last; its task has returned
\* success.
C30_Witness ==
  \E s \in Sessions :
    /\ pc[s] = "closed"
    /\ res[s].why = "ok_done"
    /\ res[s].admitted
    /\ first[s] = Registration(1)
    /\ last[s] = Done

\* C31: an expiry of the interval that is polled late is answered by one run
\* of the tick arm, and the next expiry is one full period after that run:
\* two runs are never less than a period apart, and once an expiry was missed
\* by more than a period the number of runs stays at or below the number of
\* periods that have elapsed.
C31_LateTickDelays ==
  /\ [](fired > 0 => deadline = tick_at + Period)
  /\ [](lateness > Period => fired <= now \div Period)
  /\ [][fired' # fired =>
          /\ fired' = fired + 1
          /\ fired > 0 => now' >= tick_at + Period]_vars

\* The interval completed more than a period late, and the clock has gone on
\* to the next expiry.
C31_Witness ==
  /\ lateness > Period
  /\ fired >= 2
  /\ now = deadline

\* The bees of the state, and the step is a call of State::tick.
StateBees == memory[1].bees

StateTicked == memory' # memory \/ given' # given \/ advanced' # advanced

\* C32: in a call of State::tick a bee changes position only if the moves
\* hold an entry under the bee's own player and the bee's own id, and then
\* only to the next tile in the direction of that entry; an entry another
\* player made for the bee's id moves nothing, and a bee without an entry
\* stays where it is.
C32_OnlyOwnEntryMoves ==
  [][StateTicked /\ serial' = serial /\ added' = added =>
       \A i \in DOMAIN StateBees :
         LET bee == StateBees[i]
             after == StateBees'[i]
             key == << bee.player, bee.id >>
         IN /\ after.id = bee.id /\ after.player = bee.player
            /\ key \notin DOMAIN given' => after.position = bee.position
            /\ after.position # bee.position =>
                 after.position = PositionStep(bee.position, given'[key])]_vars

\* State::tick was given an entry another player made for the id of a bee,
\* and none of the bee's own player: the bee is where it was spawned. It
\* was also given an entry of a bee's own player: that bee has left.
C32_Witness ==
  /\ advanced > 1
  /\ \E i \in DOMAIN StateBees :
       /\ \E q \in PlayerIds \ {StateBees[i].player} :
            << q, StateBees[i].id >> \in DOMAIN given
       /\ << StateBees[i].player, StateBees[i].id >> \notin DOMAIN given
       /\ \E h \in DOMAIN memory[1].hives :
            /\ memory[1].hives[h].player = StateBees[i].player
            /\ memory[1].hives[h].position = StateBees[i].position
            /\ \E j \in DOMAIN StateBees :
                 /\ StateBees[j].player = StateBees[i].player
                 /\ StateBees[j].position # memory[1].hives[h].position

\* The step is a call of State::add_player that shows.
StateAdded ==
  /\ serial' = serial
  /\ advanced' = advanced
  /\ added' # added \/ memory' # memory \/ state_spawn_points' # state_spawn_points

\* C33: State::add_player for a player that has a hive returns Ok and
\* changes nothing; for a new player it pops one spawn point and adds one
\* hive and three bees of the player at that point; for a new player with no
\* spawn point left it returns the error and changes nothing.
C33_AddPlayerCases ==
  [][StateAdded =>
       LET p == added'.player
           e == memory[1]
           left == Len(state_spawn_points)
       IN /\ p \in StatePlayers =>
               /\ added'.result = "ok"
               /\ UNCHANGED << memory, state_spawn_points >>
          /\ p \notin StatePlayers /\ left = 0 =>
               /\ added'.result = NoSpawnMsg
               /\ UNCHANGED << memory, state_spawn_points >>
          /\ p \notin StatePlayers /\ left > 0 =>
               /\ added'.result = "ok"
               /\ state_spawn_points' = SubSeq(state_spawn_points, 1, left - 1)
               /\ memory'[1].hives =
                    Append(e.hives, [player |-> p, position |-> state_spawn_points[left]])
               /\ Len(memory'[1].bees) = Len(e.bees) + 3
               /\ SubSeq(memory'[1].bees, 1, Len(e.bees)) = e.bees
               /\ \A i \in (Len(e.bees) + 1)..(Len(e.bees) + 3) :
                    /\ memory'[1].bees[i].player = p
                    /\ memory'[1].bees[i].position = state_spawn_points[left]
               /\ \A k \in 2..Len(memory) : memory'[k] = memory[k]]_vars

\* A player was given the last spawn point, another was turned away for the
\* lack of one, and the first one's next call returns Ok and changes nothing.
C33_Witness ==
  /\ added.result = NoSpawnMsg
  /\ state_spawn_points = <<>>
  /\ \E p \in StatePlayers :
       ENABLED (/\ StateAddPlayer(p, << 1, 1, 1 >>)
                /\ added'.result = "ok"
                /\ memory' = memory
                /\ state_spawn_points' = state_spawn_points)

\* C34: what a serializer shows is what the entities were when
\* State::make_serializer made it, whatever State::tick and
\* State::add_player have done to the state since.
C34_SnapshotIndependent ==
  /\ Len(made) = Len(serial)
  /\ \A i \in DOMAIN serial : Serialize(serial[i]) = made[i]

\* A serializer made before the first admission and one made after it, with
\* a tick since that moved a bee.
C34_Witness ==
  /\ Len(serial) = 2
  /\ made[1].hives = <<>>
  /\ made[2].hives # <<>>
  /\ Len(made[2].bees) = Len(StateBees)
  /\ \E i \in DOMAIN StateBees : StateBees[i].position # made[2].bees[i].position

\* The task of slot s is told that its admission was refused.
Refused(s) ==
  /\ pc[s] = "reg_wait"
  /\ reply[s] \in {"dup", "nospawn"}
  /\ pc'[s] # pc[s]

\* C35: a task whose admission is refused, as a duplicate or for the lack
\* of a spawn point, returns without the disconnection notice: the step
\* leaves the queue and the active players as they are, a Disconnect is
\* enqueued only by a task that ran the processing loop for the player, and
\* the player of a task in the processing loop stays in the active players.
C35_RefusalSendsNoDisconnect ==
  /\ [][\A s \in Sessions :
          Refused(s) => /\ pc'[s] = "closed"
                        /\ ~res'[s].admitted /\ ~res'[s].disc
                        /\ events' = events
                        /\ active_players' = active_players]_vars
  /\ [][Len(events') = Len(events) + 1 /\ events'[Len(events')].t = "Disconnect" =>
          \E s \in Sessions :
            /\ InLoop(s) \/ pc[s] = "disconnecting"
            /\ player[s] = events'[Len(events')].player
            /\ pc'[s] = "closed" /\ res'[s].admitted]_vars
  /\ [](\A u \in Sessions : InLoop(u) => player[u] \in active_players)

\* A second task for the name was refused as a duplicate and has returned;
\* the first task is in the processing loop, its player is active and no
\* Disconnect of the player is queued.
C35_Witness ==
  \E s \in Sessions, u \in Sessions :
    /\ s # u
    /\ pc[s] = "closed" /\ res[s].why = "err_refused"
    /\ last[s] = Error(DuplicateMsg)
    /\ InLoop(u)
    /\ player[u] \in active_players
    /\ QueuedDisconnects(player[u]) = {}

\* C36: every Move event in the queue, hence every one the loop consumes,
\* carries a player other than the observer, so the assertion of the Move arm
\* never fails: the tasks in the processing loop act for players, and a task
\* that acts for the observer has no Move event to send.
C36_MovesFromPlayersOnly ==
  /\ [](\A i \in 1..Len(events) : events[i].t = "Move" => events[i].player # Observer)
  /\ [](\A s \in Sessions :
          /\ InLoop(s) => player[s] # Observer
          /\ ObserverTask(s) => pending[s] = <<>>)
  /\ [][Consumed("Move") => running' /\ ~panicked']_vars

\* A task is in the loop of an observer while the Move event of a player
\* is at the head of the queue.
C36_Witness ==
  /\ \E s \in Sessions : pc[s] = "observing" /\ player[s] = Observer
  /\ events # <<>>
  /\ Head(events).t = "Move"
  /\ running

\* C37: the player of every Move event the loop consumes is one of the
\* active players at that moment: the queue keeps the order in which a task
\* enqueued its events, so no Move of a player is queued behind a Disconnect
\* of that player, and a Move event comes from a task that was admitted.
C37_MovesFromActivePlayers ==
  /\ [][Consumed("Move") => Head(events).player \in active_players]_vars
  /\ [](\A i \in 1..Len(events), j \in 1..Len(events) :
          i < j /\ events[i].t = "Disconnect" /\ events[j].t = "Move"
            => events[i].player # events[j].player)
  /\ [](\A s \in Sessions : pc[s] = "move_send" => player[s] \in active_players)

\* The Move event of an active player is at the head of the queue, and the
\* Disconnect of its task follows it.
C37_Witness ==
  /\ running
  /\ Len(events) >= 2
  /\ events[1].t = "Move"
  /\ events[1].player \in active_players
  /\ events[2] = DisconnectEv(events[1].player)

\* The task of slot s has returned, or the slot was never used: its
\* ClientState is dropped.
Ended(s) == pc[s] \in {"idle", "closed"}

\* C38: under fair scheduling, once shutdown is requested the shutdown future
\* completes: Finish reaches the loop, the loop stops, and every task,
\* wherever the request found it, returns and drops its ClientState; from
\* then on nothing runs.
C38_ShutdownCompletes ==
  /\ ShouldShutdown ~> (shutdown_pc = "complete" /\ ~running)
  /\ [](shutdown_pc = "complete" => listeners = {} /\ \A s \in Sessions : Ended(s))

\* The shutdown future has completed, and the task it had to wait for was
\* one the stopping loop left without an answer or without room in the queue.
C38_Witness ==
  /\ shutdown_pc = "complete"
  /\ pc[1] = "closed"
  /\ res[1].why = "err_finished"
  /\ ~panicked

\* C39: two different names of the registry never have the same player id,
\* and no name has the id of the observer: every id of the registry was
\* taken from the counter, which starts at 1 and only grows.
C39_NamesToDistinctIds ==
  /\ [](\A n \in DOMAIN players, m \in DOMAIN players :
          n # m => players[n] # players[m])
  /\ [](\A n \in DOMAIN players :
          /\ n # ""
          /\ players[n] # Observer
          /\ players[n] >= 1 /\ players[n] < player_counter)
  /\ [][player_counter' >= player_counter]_vars

\* Two tasks register at once under different names, and the registry has
\* given the names different ids.
C39_Witness ==
  \E s \in Sessions, u \in Sessions :
    /\ pc[s] = "registering" /\ pc[u] = "registering"
    /\ name[s] \in Names /\ name[u] \in Names /\ name[s] # name[u]
    /\ players[name[s]] # players[name[u]]
    /\ player[s] = players[name[s]] /\ player[u] = players[name[u]]

\* C40: the Disconnect arm takes the player out of the active players and
\* touches nothing else: the moves collected for the player stay and go to
\* the next call of State::tick with the rest, the state keeps the player's
\* hive, and an AddPlayer for a player that has a hive takes no spawn point.
C40_DisconnectKeepsTheRest ==
  /\ [][Consumed("Disconnect") =>
          /\ active_players' = active_players \ {Head(events).player}
          /\ UNCHANGED << next_moves, hives, spawn_points, ticks, running, panicked >>
          /\ UNCHANGED << tickVars, stateVars >>]_vars
  /\ [][Ticked => applied' = next_moves]_vars
  /\ [][Consumed("AddPlayer") /\ Head(events).player \in hives =>
          UNCHANGED << hives, spawn_points >>]_vars
  /\ [][\A p \in hives : p \in hives']_vars

\* A player was disconnected with moves collected for it and no tick since;
\* the player has its hive, no spawn point is left, and the AddPlayer of its
\* next task is at the head of the queue.
C40_Witness ==
  /\ running
  /\ events # <<>>
  /\ Head(events).t = "AddPlayer"
  /\ Head(events).player \in hives \ active_players
  /\ spawn_points = 0
  /\ \E k \in DOMAIN next_moves : k[1] = Head(events).player

====
